---- MODULE Spec2Model ----
(***************************************************************************)
(* State-machine model of the KVMD web client's video streamers            *)
(*   MediaStreamer  (Direct H.264 over WebSocket + VideoDecoder)           *)
(*   MjpegStreamer  (HTTP MJPEG, polling supervisor)                       *)
(* Every handler of the JavaScript source is one atomic action: the page   *)
(* is single-threaded, and the awaits in the message handler wait only on  *)
(* already-settled values, so their continuations run in the microtask     *)
(* checkpoint of the same task, before any other timer or event.           *)
(***************************************************************************)
EXTENDS Integers, Sequences, FiniteSets, TLC

(***************************************************************************)
(* Bounds of the model and constants of the program                        *)
(***************************************************************************)
\* pending reconnect timeouts kept in the model
MaxTimers == 2
\* discarded sockets whose error event is still to be delivered
MaxLate == 1
\* decode requests the decoder has accepted and not yet output
MaxInflight == 1
\* frames drawn between two heartbeat ticks
MaxFps == 1
\* profile_level_id values a format announcement can carry; the streamer only
\* copies the value into the codec string, so one value stands for all
ProfileLevels == {1}
\* missed heartbeats that force the connection closed
HeartbeatLimit == 5

VARIABLES
    streamer,           \* which Streamer object this behaviour drives
    \* ---- MediaStreamer: the closure variables of part_001
    stop, ensuring, ws, ping_timer, missed_heartbeats,
    codec, decoder, frame, state, fps_accum,
    \* ---- the platform objects the MediaStreamer owns
    rtimers,            \* pending setTimeout(__ensureMedia) callbacks
    pingTimers,         \* running setInterval(__ping) timers
    nlive,              \* sockets created and neither close()d nor closed
    nlate,              \* discarded sockets that still deliver an error event
    ndec,               \* VideoDecoder objects created and not closed
    keyReq,             \* the decoder's "key chunk required" slot
    inflight,           \* chunks accepted by decode() and not yet output
    raf,                \* whether __drawPendingFrame waits for the next display refresh
    held,               \* decoded frames received and not yet passed to __closeFrame
    unreleased,         \* a frame of the previous decoder session was dropped without close()
    beats,              \* heartbeat ticks since the socket opened or last replied
    has_videodecoder, is_https,
    \* ---- what the callbacks last reported, and what the last handler did
    active, info, out,
    \* ---- MjpegStreamer: the closure variables of stream_mjpeg.js
    mj_key, id, fps, mj_state, timer, timer_retries,
    \* ---- the platform objects the MjpegStreamer uses
    pollTimers,         \* running setInterval(__checkStream) timers
    cookie,             \* the stream_client cookie: none, or key and client id
    src,                \* the src of the stream-image element
    mj_active, mj_info, mj_out,
    \* ---- tools.browser: the engine flags both streamers read
    browser,
    \* ---- the drawing surface of the MediaStreamer
    orient,             \* the __orient the streamer was constructed with
    canvas,             \* width and height of the stream canvas
    natural,            \* displayWidth and displayHeight of the pending frame, or NoSize
    painted,            \* natural size of the frame last drawn, or NoSize
    \* ---- MouseController: the fields of its MouseState
    hid_ws,             \* whether setSocket() handed the controller a socket
    absolute, plannedPos, sentPos, relativeDeltas, relativeTouchPos, scrollTouchPos,
    currentStrategy,    \* "absolute" or "relative": the strategy object in use
    \* ---- the MouseScrollHandler
    scrollDelta, scrollFix,
    \* ---- the page the controller lives on
    pointerLock,        \* "free", "requested" or "locked" on the stream box
    hid_out             \* what the last handler of the controller did

mvars == <<stop, ensuring, ws, ping_timer, missed_heartbeats, codec, decoder,
           frame, state, fps_accum, rtimers, pingTimers, nlive, nlate, ndec,
           keyReq, inflight, raf, held, unreleased, beats,
           active, info, out>>
jvars == <<mj_key, id, fps, mj_state, timer, timer_retries, pollTimers, cookie, src,
           mj_active, mj_info, mj_out>>
platform == <<has_videodecoder, is_https, browser>>
svars == <<orient, canvas, natural, painted>>
hvars == <<hid_ws, absolute, plannedPos, sentPos, relativeDeltas, relativeTouchPos,
           scrollTouchPos, currentStrategy, scrollDelta, scrollFix, pointerLock, hid_out>>
vars == <<streamer, mvars, jvars, platform, svars, hvars>>

(***************************************************************************)
(* What one handler run did, for the claims to read                        *)
(***************************************************************************)
NoOut == [op |-> "", opened |-> 0, sched |-> 0, probes |-> 0, starts |-> 0,
          created |-> 0, configured |-> 0, unreleased |-> FALSE, closeFrame |-> <<>>, released |-> <<>>, drew |-> 0,
          submit |-> "none", calls |-> <<>>, info |-> <<>>, threw |-> FALSE]

\* What the state keeps of a handler run; the callbacks' arguments are read off
\* the handler's own result.
Kept(o) == [op |-> o.op, opened |-> o.opened, sched |-> o.sched, probes |-> o.probes,
            created |-> o.created, configured |-> o.configured,
            unreleased |-> o.unreleased, closeFrame |-> o.closeFrame, released |-> o.released, drew |-> o.drew,
            submit |-> o.submit, threw |-> o.threw]

\* info keeps the text last handed to __setInfo, without the figures in it; a
\* handler's result lists in out.info every argument of the calls it made.
NoInfo == ""

\* The closure state at the start of a handler run.
Cur == [stop |-> stop, ensuring |-> ensuring, ws |-> ws, ping_timer |-> ping_timer,
        missed_heartbeats |-> missed_heartbeats, codec |-> codec, decoder |-> decoder,
        frame |-> frame, state |-> state, fps_accum |-> fps_accum,
        rtimers |-> rtimers, pingTimers |-> pingTimers, nlive |-> nlive,
        nlate |-> nlate, ndec |-> ndec, keyReq |-> keyReq, inflight |-> inflight,
        raf |-> raf, held |-> held, unreleased |-> unreleased, beats |-> beats, active |-> active, info |-> info,
        out |-> NoOut, exc |-> FALSE, ret |-> FALSE]

\* The closure state once a handler run is over.
Done(r) == [r EXCEPT !.out = Kept([r.out EXCEPT !.threw = r.exc]),
                     !.beats = IF r.ws = "open" THEN r.beats ELSE 0,
                     !.exc = FALSE, !.ret = FALSE]

\* The closure state as handler op starts to run.
Begin(op) == [Cur EXCEPT !.out.op = op]

(***************************************************************************)
(* MediaStreamer: callbacks handed in at construction                      *)
(***************************************************************************)
setActive(s) == [s EXCEPT !.active = TRUE, !.out.calls = Append(@, "setActive")]

setInactive(s) == [s EXCEPT !.active = FALSE, !.out.calls = Append(@, "setInactive")]

setInfo(s, streaming, online, msg, n) ==
    [s EXCEPT !.info = msg,
              !.out.calls = Append(@, "setInfo"),
              !.out.info = Append(@, [streaming |-> streaming, online |-> online,
                                      msg |-> msg, n |-> n])]

(***************************************************************************)
(* MediaStreamer: platform calls made by the handlers                      *)
(***************************************************************************)
\* __ws.send(): throws on a null or still connecting socket, is silently
\* dropped by a closing or closed one.
wsSend(s, what) ==
    IF s.ws = "open"
    THEN IF what = "probe" THEN [s EXCEPT !.out.probes = @ + 1]
                           ELSE [s EXCEPT !.out.starts = @ + 1]
    ELSE IF s.ws = "closed" THEN s
    ELSE [s EXCEPT !.exc = TRUE]

\* __decoder.close(): throws InvalidStateError on a decoder that is already
\* closed, otherwise closes it and drops its queued work.
decoderClose(s) ==
    IF s.decoder = "closed"
    THEN [s EXCEPT !.exc = TRUE]
    ELSE [s EXCEPT !.decoder = "closed", !.ndec = @ - 1, !.inflight = 0, !.keyReq = FALSE]

\* new VideoDecoder({output, error})
newVideoDecoder(s) ==
    IF ~has_videodecoder
    THEN [s EXCEPT !.exc = TRUE]
    ELSE [s EXCEPT !.decoder = "unconfigured", !.ndec = @ + 1, !.inflight = 0,
                   !.keyReq = FALSE, !.unreleased = FALSE,
                   !.out.created = @ + 1, !.out.unreleased = s.unreleased]

\* __decoder.configure(): the next chunk must be a key chunk.
decoderConfigure(s) ==
    IF s.decoder = "closed"
    THEN [s EXCEPT !.exc = TRUE]
    ELSE [s EXCEPT !.decoder = "configured", !.keyReq = TRUE, !.out.configured = @ + 1]

\* __decoder.decode(chunk)
decoderDecode(s, key) ==
    IF s.decoder /= "configured" \/ (s.keyReq /\ ~key)
    THEN [s EXCEPT !.exc = TRUE, !.out.submit = "rejected"]
    ELSE [s EXCEPT !.keyReq = FALSE, !.inflight = @ + 1,
                   !.out.submit = IF key THEN "key" ELSE "delta"]

(***************************************************************************)
(* MediaStreamer: the functions of part_001                                *)
(***************************************************************************)
closeFrame(s, f) ==
    [s EXCEPT !.held = @ - 1,
              !.out.closeFrame = Append(@, f),
              !.out.released = IF browser.is_firefox THEN @ ELSE Append(@, f)]

closeDecoder(s) ==
    IF s.decoder = "null"
    THEN s
    ELSE LET c == decoderClose(s)
             \* the finally blocks run whether or not close() threw
             d == [c EXCEPT !.codec = 0, !.decoder = "null"]
         IN  IF d.frame /= 0
             THEN LET k == closeFrame(d, d.frame)
                  IN  [k EXCEPT !.frame = 0,
                                !.unreleased = (k.out.released = d.out.released)]
             ELSE d

\* setTimeout(() => __ensureMedia(true), 1000)
scheduleReconnect(s) == [s EXCEPT !.rtimers = @ + 1, !.out.sched = @ + 1]

wsCloseHandler(s) ==
    LET t == IF s.ping_timer
             THEN [s EXCEPT !.ping_timer = FALSE, !.pingTimers = @ - 1]
             ELSE s
        d == closeDecoder(t)
    IN  IF d.exc
        THEN d
        ELSE LET z == [d EXCEPT !.missed_heartbeats = 0, !.fps_accum = 0, !.ws = "null"]
             IN  IF ~z.stop THEN scheduleReconnect(z) ELSE z

wsForceClose(s) ==
    LET c == IF s.ws \in {"connecting", "open"}
             \* onclose = null; close(): the socket stops being live and may
             \* still deliver its error event
             THEN [s EXCEPT !.ws = "closed", !.nlive = @ - 1,
                            !.nlate = IF @ < MaxLate THEN @ + 1 ELSE @]
             ELSE s
        h == wsCloseHandler(c)
    IN  IF h.exc THEN h ELSE setInactive(h)

wsErrorHandler(s, ev) == wsForceClose(setInfo(s, FALSE, FALSE, ev, 0))

\* ensureMedia without the test for an existing connection
ensureMedia_NoWsTest(s, internal) ==
    IF ~s.stop /\ (~s.ensuring \/ internal)
    THEN LET a == setInfo(setInactive([s EXCEPT !.ensuring = TRUE]), FALSE, FALSE, "", 0)
         IN [a EXCEPT !.ws = "connecting", !.nlive = @ + 1, !.out.opened = @ + 1]
    ELSE s

\* ensureMedia that does not look at the stop flag
ensureMedia_IgnoresStop(s, internal) ==
    IF s.ws = "null" /\ (~s.ensuring \/ internal)
    THEN LET a == setInfo(setInactive([s EXCEPT !.ensuring = TRUE]), FALSE, FALSE, "", 0)
         IN [a EXCEPT !.ws = "connecting", !.nlive = @ + 1, !.out.opened = @ + 1]
    ELSE s

ensureMedia(s, internal) ==
    IF s.ws = "null" /\ ~s.stop /\ (~s.ensuring \/ internal)
    THEN LET a == setInfo(setInactive([s EXCEPT !.ensuring = TRUE]), FALSE, FALSE, "", 0)
         IN  [a EXCEPT !.ws = "connecting", !.nlive = @ + 1, !.out.opened = @ + 1]
    ELSE s

ensureStream(s, st) == ensureMedia([s EXCEPT !.state = st, !.stop = FALSE], FALSE)

stopStream(s) ==
    LET f == wsForceClose([s EXCEPT !.stop = TRUE, !.ensuring = FALSE])
    IN  IF f.exc THEN f ELSE setInfo(f, FALSE, FALSE, "", 0)

wsOpenHandler(s) ==
    [s EXCEPT !.missed_heartbeats = 0, !.ping_timer = TRUE, !.pingTimers = @ + 1]

\* ping that gives up one tick late
ping_OneTickLate(s) ==
    LET m == [s EXCEPT !.missed_heartbeats = @ + 1]
    IN  IF m.missed_heartbeats > HeartbeatLimit
        THEN wsErrorHandler(m, "Too many missed heartbeats")
        ELSE LET p == wsSend(m, "probe")
             IN  IF p.exc
                 THEN wsErrorHandler([p EXCEPT !.exc = FALSE], "exception")
                 ELSE IF p.decoder = "configured"
                 THEN setInfo([p EXCEPT !.fps_accum = 0], TRUE, p.state = "online",
                              "fps dynamic", p.fps_accum)
                 ELSE p

ping(s) ==
    LET m == [s EXCEPT !.missed_heartbeats = @ + 1]
    IN  IF m.missed_heartbeats >= HeartbeatLimit
        THEN wsErrorHandler(m, "Too many missed heartbeats")
        ELSE LET p == wsSend(m, "probe")
             IN  IF p.exc
                 THEN wsErrorHandler([p EXCEPT !.exc = FALSE], "exception")
                 ELSE IF p.decoder = "configured"
                 THEN setInfo([p EXCEPT !.fps_accum = 0], TRUE, p.state = "online",
                              "fps dynamic", p.fps_accum)
                 ELSE p

\* formats: 0 when the announcement carries no h264 entry, else its
\* profile_level_id.
setupCodec(s, formats) ==
    LET d == closeDecoder(s)
    IN  IF d.exc THEN d
        ELSE IF formats = 0
        THEN setInfo(d, FALSE, FALSE, "No H.264 stream available on PiKVM", 0)
        ELSE IF ~has_videodecoder
        THEN setInfo(d, FALSE, FALSE,
                     IF ~is_https THEN "Direct H.264 requires HTTPS"
                     ELSE "This browser can't handle direct H.264 stream", 0)
        ELSE wsSend([d EXCEPT !.codec = formats], "start")

wsJsonHandler(s, ev_type, ev) ==
    IF ev_type = "media" THEN setupCodec(s, ev) ELSE s

\* ensureDecoder that configures the decoder on any frame
ensureDecoder_ConfiguresOnAnyFrame(s, key) ==
    IF s.codec = 0
    THEN [s EXCEPT !.ret = FALSE]
    ELSE LET a == IF s.decoder \in {"null", "closed"}
                  THEN LET c == closeDecoder(s)
                           n == IF c.exc THEN c
                                ELSE newVideoDecoder([c EXCEPT !.codec = s.codec])
                       IN  IF ~n.exc THEN wsSend(n, "probe") ELSE n
                  ELSE s
             b == IF a.exc \/ a.decoder = "configured"
                  THEN a
                  ELSE decoderConfigure(a)
         IN  IF b.exc THEN b
             ELSE IF b.decoder = "configured"
             THEN [setActive(b) EXCEPT !.ret = TRUE]
             ELSE [b EXCEPT !.ret = FALSE]

\* ensureDecoder that replaces a closed decoder without tearing it down
ensureDecoder_NoTeardown(s, key) ==
    IF s.codec = 0
    THEN [s EXCEPT !.ret = FALSE]
    ELSE LET a == IF s.decoder \in {"null", "closed"}
                  THEN wsSend(newVideoDecoder(s), "probe")
                  ELSE s
             b == IF a.exc \/ a.decoder = "configured" \/ ~key
                  THEN a
                  ELSE decoderConfigure(a)
         IN  IF b.exc THEN b
             ELSE IF b.decoder = "configured"
             THEN [setActive(b) EXCEPT !.ret = TRUE]
             ELSE [b EXCEPT !.ret = FALSE]

\* ensureDecoder that reports activity for any decoder it holds
ensureDecoder_ActiveUnconfigured(s, key) ==
    IF s.codec = 0
    THEN [s EXCEPT !.ret = FALSE]
    ELSE LET a == IF s.decoder \in {"null", "closed"}
                  THEN LET started == s.codec /= 0
                           c == closeDecoder(s)
                           n == IF c.exc THEN c
                                ELSE newVideoDecoder([c EXCEPT !.codec = s.codec])
                       IN  IF ~n.exc /\ started THEN wsSend(n, "probe") ELSE n
                  ELSE s
             b == IF a.exc \/ a.decoder = "configured" \/ ~key
                  THEN a
                  ELSE decoderConfigure(a)
         IN  IF b.exc THEN b
             ELSE [setActive(b) EXCEPT !.ret = (b.decoder = "configured")]

ensureDecoder(s, key) ==
    IF s.codec = 0
    THEN [s EXCEPT !.ret = FALSE]
    ELSE LET a == IF s.decoder \in {"null", "closed"}
                  THEN LET started == s.codec /= 0
                           c == closeDecoder(s)
                           n == IF c.exc THEN c
                                ELSE newVideoDecoder([c EXCEPT !.codec = s.codec])
                       IN  IF ~n.exc /\ started THEN wsSend(n, "probe") ELSE n
                  ELSE s
             b == IF a.exc \/ a.decoder = "configured" \/ ~key
                  THEN a
                  ELSE decoderConfigure(a)
         IN  IF b.exc THEN b
             ELSE IF b.decoder = "configured"
             THEN [setActive(b) EXCEPT !.ret = TRUE]
             ELSE [b EXCEPT !.ret = FALSE]

processFrame(s, key) == decoderDecode(s, key)

\* header: the first byte of the message; key: its second byte is nonzero.
wsBinHandler(s, header, key) ==
    IF header = 255
    THEN [s EXCEPT !.missed_heartbeats = 0]
    ELSE IF header = 1
    THEN LET e == ensureDecoder(s, key)
         IN  IF ~e.exc /\ e.ret THEN processFrame(e, key) ELSE e
    ELSE s

\* __ws.onmessage: msg.kind is "json" (with type and video), "bad" (text that
\* does not parse or lacks the format record) or "bin" (with header and key).
onmessage(s, msg) ==
    LET r == IF msg.kind = "json" THEN wsJsonHandler(s, msg.type, msg.video)
             ELSE IF msg.kind = "bin" THEN wsBinHandler(s, msg.header, msg.key)
             ELSE [s EXCEPT !.exc = TRUE]
    IN  IF r.exc THEN wsErrorHandler([r EXCEPT !.exc = FALSE], "exception") ELSE r

\* renderFrame that keeps the newest frame and discards the buffered one
renderFrame_KeepsNewest(s, f) ==
    IF s.frame = 0
    THEN [s EXCEPT !.frame = f, !.raf = TRUE]
    ELSE [closeFrame(s, s.frame) EXCEPT !.frame = f]

renderFrame(s, f) ==
    IF s.frame = 0
    THEN [s EXCEPT !.frame = f, !.raf = TRUE]
    ELSE closeFrame(s, f)

\* drawPendingFrame that closes the frame only after a draw that went through
drawPendingFrame_LeaksOnThrow(s, drawn) ==
    IF s.frame = 0
    THEN s
    ELSE IF drawn
    THEN [closeFrame([s EXCEPT !.out.drew = s.frame, !.fps_accum = @ + 1], s.frame)
             EXCEPT !.frame = 0]
    ELSE [s EXCEPT !.exc = TRUE, !.frame = 0]

\* drawn: whether resizing and drawImage went through without throwing.
drawPendingFrame(s, drawn) ==
    IF s.frame = 0
    THEN s
    ELSE LET d == IF drawn
                  THEN [s EXCEPT !.out.drew = s.frame, !.fps_accum = @ + 1]
                  ELSE [s EXCEPT !.exc = TRUE]
         IN  [closeFrame(d, d.frame) EXCEPT !.frame = 0]

(***************************************************************************)
(* MediaStreamer: inputs, initial state and actions                        *)
(***************************************************************************)
\* the snapshots ensureStream is given: the source is offline or online
States == {"offline", "online"}

Messages ==
    [kind : {"json"}, type : {"media"}, video : {0} \cup ProfileLevels]
    \cup {[kind |-> "json", type |-> "other", video |-> 0]}
    \cup {[kind |-> "bad"]}
    \* the second byte is read for video frames only
    \cup [kind : {"bin"}, header : {1}, key : BOOLEAN]
    \cup [kind : {"bin"}, header : {255, 0}, key : {FALSE}]

IsPong(msg) == msg.kind = "bin" /\ msg.header = 255

IsFrame(msg, key) == msg.kind = "bin" /\ msg.header = 1 /\ msg.key = key

MediaInit ==
    /\ stop = FALSE /\ ensuring = FALSE /\ ws = "null" /\ ping_timer = FALSE
    /\ missed_heartbeats = 0 /\ codec = 0 /\ decoder = "null" /\ frame = 0
    /\ state = "null" /\ fps_accum = 0
    /\ rtimers = 0 /\ pingTimers = 0 /\ nlive = 0 /\ nlate = 0 /\ ndec = 0
    /\ keyReq = FALSE /\ inflight = 0 /\ raf = FALSE /\ held = 0 /\ unreleased = FALSE /\ beats = 0
    /\ active = FALSE /\ info = NoInfo /\ out = Kept(NoOut)

\* The state a handler run leaves behind; r.exc tells that the run ended in an
\* exception nobody caught.
Commit(r) ==
    \E d \in {Done(r)} :
        /\ d.rtimers <= MaxTimers
        /\ d.inflight <= MaxInflight /\ d.fps_accum <= MaxFps
        /\ stop' = d.stop /\ ensuring' = d.ensuring /\ ws' = d.ws
        /\ ping_timer' = d.ping_timer /\ missed_heartbeats' = d.missed_heartbeats
        /\ codec' = d.codec /\ decoder' = d.decoder /\ frame' = d.frame
        /\ state' = d.state /\ fps_accum' = d.fps_accum
        /\ rtimers' = d.rtimers /\ pingTimers' = d.pingTimers /\ nlive' = d.nlive
        /\ nlate' = d.nlate /\ ndec' = d.ndec /\ keyReq' = d.keyReq
        /\ inflight' = d.inflight /\ raf' = d.raf /\ held' = d.held /\ unreleased' = d.unreleased
        /\ beats' = d.beats
        /\ active' = d.active /\ info' = d.info /\ out' = d.out
        /\ UNCHANGED <<streamer, platform, jvars, svars, hvars>>

EnsureStream ==
    /\ streamer = "media"
    /\ \E st \in States : Commit(ensureStream(Begin("ensureStream"), st))

StopStream ==
    /\ streamer = "media"
    /\ Commit(stopStream(Begin("stopStream")))

\* a pending setTimeout(() => __ensureMedia(true), 1000) fires
ReconnectTimer ==
    /\ streamer = "media"
    /\ rtimers > 0
    /\ Commit(ensureMedia([Begin("reconnect") EXCEPT !.rtimers = @ - 1], TRUE))

WsOpen ==
    /\ streamer = "media"
    /\ ws = "connecting"
    /\ Commit(wsOpenHandler([Begin("open") EXCEPT !.ws = "open", !.beats = 0]))

\* setInterval(__ping, 1000)
PingTick ==
    /\ streamer = "media"
    /\ pingTimers > 0
    /\ Commit(ping([Begin("ping") EXCEPT !.beats = @ + 1]))

\* error event of the current socket: the connection failed, the socket is
\* already closed when the handler runs, and its close event follows.
WsError ==
    /\ streamer = "media"
    /\ ws \in {"connecting", "open"}
    /\ Commit(wsErrorHandler([Begin("error") EXCEPT !.ws = "closed", !.nlive = @ - 1],
                             "error"))

\* close event of the current socket without an error event before it: the
\* peer closed the connection.
WsClose ==
    /\ streamer = "media"
    /\ ws = "open"
    /\ Commit(wsCloseHandler([Begin("close") EXCEPT !.ws = "closed", !.nlive = @ - 1]))

\* error event of a socket the streamer close()d earlier: its onerror is
\* still __wsErrorHandler.
WsLateError ==
    /\ streamer = "media"
    /\ nlate > 0
    /\ Commit(wsErrorHandler([Begin("late error") EXCEPT !.nlate = @ - 1], "error"))

WsMessage ==
    /\ streamer = "media"
    /\ ws = "open"
    /\ \E msg \in Messages :
         Commit(onmessage([Begin("message") EXCEPT !.beats = IF IsPong(msg) THEN 0 ELSE @],
                          msg))

\* the decoder's output callback; the new frame is told apart from the one
\* the streamer still holds
DecoderOutput ==
    /\ streamer = "media"
    /\ decoder = "configured" /\ inflight > 0
    /\ Commit(renderFrame([Begin("output") EXCEPT !.inflight = @ - 1, !.held = @ + 1],
                          IF frame = 1 THEN 2 ELSE 1))

\* the decoder's error callback: the decoder has closed itself, the callback
\* only logs.
DecoderError ==
    /\ streamer = "media"
    /\ decoder = "configured"
    /\ Commit([Begin("decoder error") EXCEPT !.decoder = "closed", !.ndec = @ - 1,
                                             !.inflight = 0, !.keyReq = FALSE])

\* window.requestAnimationFrame(__drawPendingFrame): the display refresh runs
\* every callback requested before it; the first one to find a frame draws it
\* and the others find none.
AnimationFrame ==
    /\ streamer = "media"
    /\ raf
    /\ \E drawn \in BOOLEAN : Commit(drawPendingFrame([Begin("draw") EXCEPT !.raf = FALSE], drawn))

MediaNext ==
    \/ EnsureStream \/ StopStream \/ ReconnectTimer \/ WsOpen \/ PingTick
    \/ WsError \/ WsClose \/ WsLateError \/ WsMessage
    \/ DecoderOutput \/ DecoderError \/ AnimationFrame

(***************************************************************************)
(* MjpegStreamer: stream_mjpeg.js                                          *)
(***************************************************************************)
\* tools.makeRandomId() never repeats: session keys are told apart from every
\* key still held by the cookie or by the image's request.
Keys == {1, 2, 3, 4}

\* client ids the server hands out; 0 stands for the empty string
ClientIds == {1, 2}

NoCookie == [key |-> 0, client |-> 0]

Blank == [kind |-> "blank", key |-> 0, dual_final_frames |-> FALSE,
          advance_headers |-> FALSE]

\* the snapshots ensureStream is given: the per-client stats and source.online
Snapshots == [clients : SUBSET ClientIds, fps : {0, 1}, online : BOOLEAN]

NoSnapshot == [clients |-> {}, fps |-> -1, online |-> FALSE]

NoMjOut == [op |-> "", calls |-> <<>>, info |-> <<>>, requested |-> <<>>]

MjCur == [key |-> mj_key, id |-> id, fps |-> fps, state |-> mj_state, timer |-> timer,
          timer_retries |-> timer_retries, pollTimers |-> pollTimers,
          cookie |-> cookie, src |-> src, active |-> mj_active, info |-> mj_info,
          out |-> NoMjOut]

MjBegin(op) == [MjCur EXCEPT !.out.op = op]

MjKept(o) == [op |-> o.op, requested |-> o.requested]

MjDone(r) == [r EXCEPT !.out = MjKept(r.out)]

makeRandomId(m) == CHOOSE k \in Keys : k \notin {m.key, m.cookie.key, m.src.key}

mjSetActive(m) == [m EXCEPT !.active = TRUE, !.out.calls = Append(@, "setActive")]

mjSetInactive(m) == [m EXCEPT !.active = FALSE, !.out.calls = Append(@, "setInactive")]

mjSetInfo(m, streaming, online, msg, n) ==
    [m EXCEPT !.info = msg,
              !.out.calls = Append(@, "setInfo"),
              !.out.info = Append(@, [streaming |-> streaming, online |-> online,
                                      msg |-> msg, n |-> n])]

organizeHook(m) == [m EXCEPT !.out.calls = Append(@, "organizeHook")]

\* setStreamActive that tests the fps it has just stored
setStreamActive_TestsNewFps(m) ==
    LET a == [m EXCEPT !.fps = m.state.fps]
        b == IF a.fps < 0 THEN mjSetActive(a) ELSE a
    IN  mjSetInfo(b, TRUE, m.state.online, "fps dynamic", a.fps)

setStreamActive(m) ==
    LET a == [m EXCEPT !.fps = m.state.fps]
        b == IF m.fps < 0 THEN mjSetActive(a) ELSE a
    IN  mjSetInfo(b, TRUE, m.state.online, "fps dynamic", a.fps)

\* setStreamInactive that keeps the session key
setStreamInactive_KeepsKey(m) ==
    LET a == [m EXCEPT !.id = 0, !.fps = -1, !.state = NoSnapshot]
    IN  IF m.fps >= 0
        THEN mjSetInfo(mjSetInactive(a), FALSE, FALSE, "", 0)
        ELSE a

setStreamInactive(m) ==
    LET a == [m EXCEPT !.key = makeRandomId(m), !.id = 0, !.fps = -1,
                       !.state = NoSnapshot]
    IN  IF m.fps >= 0
        THEN mjSetInfo(mjSetInactive(a), FALSE, FALSE, "", 0)
        ELSE a

\* ensureChecking that does not test for a running timer
ensureChecking_Always(m) ==
    [m EXCEPT !.timer_retries = 10, !.timer = TRUE, !.pollTimers = @ + 1]

ensureChecking(m) ==
    IF ~m.timer
    THEN [m EXCEPT !.timer_retries = 10, !.timer = TRUE, !.pollTimers = @ + 1]
    ELSE m

\* stopChecking that leaves the retry budget as it is
stopChecking_KeepsRetries(m) ==
    LET c == IF m.timer THEN [m EXCEPT !.pollTimers = @ - 1] ELSE m
    IN  [c EXCEPT !.timer = FALSE]

stopChecking(m) ==
    LET c == IF m.timer THEN [m EXCEPT !.pollTimers = @ - 1] ELSE m
    IN  [c EXCEPT !.timer = FALSE, !.timer_retries = 0]

\* findId that takes the client id of any stream_client cookie
findId_AnyCookie(m) ==
    IF m.id = 0 /\ m.cookie /= NoCookie
    THEN [m EXCEPT !.id = m.cookie.client]
    ELSE m

\* the cookie is "<key>/<client id>"; it is taken when it starts with the
\* current key and a slash
findId(m) ==
    IF m.id = 0 /\ m.cookie /= NoCookie /\ m.cookie.key = m.key
    THEN [m EXCEPT !.id = m.cookie.client]
    ELSE m

mjEnsureStream(m, st) ==
    IF st /= NoSnapshot
    THEN LET f == findId([m EXCEPT !.state = st])
         IN  IF f.id /= 0 /\ f.id \in f.state.clients
             THEN organizeHook(stopChecking(setStreamActive(f)))
             ELSE ensureChecking(f)
    ELSE setStreamInactive(stopChecking(m))

mjStopStream(m) ==
    LET e == mjEnsureStream(m, NoSnapshot)
    IN  IF e.src /= Blank THEN [e EXCEPT !.src = Blank] ELSE e

\* streamPath that adds each workaround parameter on its own detection
streamPath_Independent(k) ==
    [kind |-> "stream", key |-> k,
     dual_final_frames |-> (browser.is_safari \/ browser.is_ios),
     advance_headers |-> (browser.is_chrome \/ browser.is_blink)]

\* `${ROOT_PREFIX}streamer/stream?key=...` and the engine workarounds: an
\* if / else if, so the second is looked at only when the first does not apply
streamPath(k) ==
    LET webkit == browser.is_safari \/ browser.is_ios
        blink == browser.is_chrome \/ browser.is_blink
    IN  [kind |-> "stream", key |-> k, dual_final_frames |-> webkit,
         advance_headers |-> ~webkit /\ blink]

\* __id.legnth is undefined, and undefined > 0 is false
legnthIsPositive(i) == FALSE

\* checkStream whose waiting tick does not use up the retry budget
checkStream_WaitsForFree(m) ==
    LET f == findId(m)
    IN  IF legnthIsPositive(f.id) /\ f.id \in f.state.clients
        THEN stopChecking(setStreamActive(f))
        ELSE IF f.id /= 0 /\ f.timer_retries >= 0
        THEN f
        ELSE LET z == stopChecking(setStreamInactive(f))
                 path == streamPath(z.key)
             IN  [z EXCEPT !.src = path, !.out.requested = Append(@, path)]

\* checkStream that also waits for a client id that is not resolved yet
checkStream_WaitsUnresolved(m) ==
    LET f == findId(m)
    IN  IF legnthIsPositive(f.id) /\ f.id \in f.state.clients
        THEN stopChecking(setStreamActive(f))
        ELSE IF f.timer_retries >= 0
        THEN [f EXCEPT !.timer_retries = @ - 1]
        ELSE LET z == stopChecking(setStreamInactive(f))
                 path == streamPath(z.key)
             IN  [z EXCEPT !.src = path, !.out.requested = Append(@, path)]

checkStream(m) ==
    LET f == findId(m)
    IN  IF legnthIsPositive(f.id) /\ f.id \in f.state.clients
        THEN stopChecking(setStreamActive(f))
        ELSE IF f.id /= 0 /\ f.timer_retries >= 0
        THEN [f EXCEPT !.timer_retries = @ - 1]
        ELSE LET z == stopChecking(setStreamInactive(f))
                 path == streamPath(z.key)
             IN  [z EXCEPT !.src = path, !.out.requested = Append(@, path)]

MjpegInit ==
    /\ mj_key = 1 /\ id = 0 /\ fps = -1 /\ mj_state = NoSnapshot
    /\ timer = FALSE /\ timer_retries = 0 /\ pollTimers = 0
    /\ cookie = NoCookie /\ src = Blank
    /\ mj_active = FALSE /\ mj_info = "" /\ mj_out = MjKept(NoMjOut)

MjCommit(r) ==
    \E d \in {MjDone(r)} :
        /\ mj_key' = d.key /\ id' = d.id /\ fps' = d.fps /\ mj_state' = d.state
        /\ timer' = d.timer /\ timer_retries' = d.timer_retries
        /\ pollTimers' = d.pollTimers /\ cookie' = d.cookie /\ src' = d.src
        /\ mj_active' = d.active /\ mj_info' = d.info /\ mj_out' = d.out
        /\ UNCHANGED <<streamer, platform, mvars, svars, hvars>>

MjEnsureStream ==
    /\ streamer = "mjpeg"
    /\ \E st \in Snapshots \cup {NoSnapshot} : MjCommit(mjEnsureStream(MjBegin("ensureStream"), st))

MjStopStream ==
    /\ streamer = "mjpeg"
    /\ MjCommit(mjStopStream(MjBegin("stopStream")))

\* setInterval(__checkStream, 100)
MjCheckStream ==
    /\ streamer = "mjpeg"
    /\ pollTimers > 0
    /\ MjCommit(checkStream(MjBegin("checkStream")))

\* the server answers the image request for key k with the cookie "k/<id>"
MjServerCookie ==
    /\ streamer = "mjpeg"
    /\ src.kind = "stream"
    /\ \E c \in ClientIds :
         MjCommit([MjBegin("cookie") EXCEPT !.cookie = [key |-> src.key, client |-> c]])

MjpegNext == MjEnsureStream \/ MjStopStream \/ MjCheckStream \/ MjServerCookie

(***************************************************************************)
(* The page: one streamer drives the stream window at a time               *)
(***************************************************************************)
NoEngine == [is_firefox |-> FALSE, is_safari |-> FALSE, is_ios |-> FALSE,
             is_chrome |-> FALSE, is_blink |-> FALSE]

\* tools.browser as Firefox, Safari, Chrome and Chrome on iOS report it
Browsers ==
    { [NoEngine EXCEPT !.is_firefox = TRUE],
      [NoEngine EXCEPT !.is_safari = TRUE],
      [NoEngine EXCEPT !.is_chrome = TRUE, !.is_blink = TRUE],
      [NoEngine EXCEPT !.is_ios = TRUE, !.is_chrome = TRUE] }

\* window.VideoDecoder is exposed in secure contexts only
PlatformInit ==
    /\ browser \in Browsers
    /\ has_videodecoder \in BOOLEAN /\ is_https \in BOOLEAN
    /\ has_videodecoder => is_https

(***************************************************************************)
(* The drawing surface: the size computation of __drawPendingFrame         *)
(***************************************************************************)
MaxSide == 3
Orientations == {0, 90, 180, 270}
NoSize == [width |-> 0, height |-> 0]
Sizes == [width : 1..MaxSide, height : 1..MaxSide]

\* the width and height the frame takes on the canvas: swapped for the
\* quarter turns, the frame's own otherwise
surfaceSize_SwapsHalfTurn(o, f) ==
    IF o \in {90, 180, 270}
    THEN [width |-> f.height, height |-> f.width]
    ELSE [width |-> f.width, height |-> f.height]

surfaceSize(o, f) ==
    IF o = 90 \/ o = 270
    THEN [width |-> f.height, height |-> f.width]
    ELSE [width |-> f.width, height |-> f.height]

\* the canvas is assigned only when its size differs from the computed one
resizeCanvas(c, size) ==
    IF c.width # size.width \/ c.height # size.height THEN size ELSE c

SurfaceIdle ==
    /\ orient = 0 /\ canvas = [width |-> 1, height |-> 1]
    /\ natural = NoSize /\ painted = NoSize

\* the decoder hands a frame to __renderFrame while none is pending
SurfaceFrame ==
    /\ streamer = "surface" /\ natural = NoSize
    /\ \E f \in Sizes : natural' = f
    /\ UNCHANGED <<streamer, mvars, jvars, platform, hvars, orient, canvas, painted>>

\* the display refresh draws the pending frame: the canvas is sized before
\* drawImage, which may throw; the frame is dropped either way.  The frame
\* bookkeeping of the same handler is drawPendingFrame above.
SurfaceDraw ==
    /\ streamer = "surface" /\ natural # NoSize
    /\ canvas' = resizeCanvas(canvas, surfaceSize(orient, natural))
    /\ \E drawn \in BOOLEAN : painted' = IF drawn THEN natural ELSE NoSize
    /\ natural' = NoSize
    /\ UNCHANGED <<streamer, mvars, jvars, platform, hvars, orient>>

SurfaceNext == SurfaceFrame \/ SurfaceDraw

(***************************************************************************)
(* MouseController: mouse.js with the state, communication, strategy and   *)
(* scroll modules it drives                                                *)
(***************************************************************************)
RELATIVE_MAX_DELTA == 127
RELATIVE_MIN_DELTA == 0 - 127
SCROLL_THRESHOLD == 100
TOUCH_THRESHOLD == 15

\* relative deltas queued between two runs of the planned-move timer
MaxQueue == 2

Zero == [x |-> 0, y |-> 0]

\* null, for the positions MouseState holds
NoPos == [x |-> 0 - 1, y |-> 0 - 1]

\* pointer and touch positions inside the stream box
Positions == {[x |-> 0, y |-> 0], [x |-> 1, y |-> 0]}

\* positions of the first of two fingers
ScrollPositions == {[x |-> 0, y |-> 0], [x |-> 20, y |-> 1]}

\* movementX and movementY of a mousemove event
Movements == {[x |-> 1, y |-> 0], [x |-> 0 - 200, y |-> 200]}

\* the sensitivity slider, in tenths: 0.1 and 1.0
Sensitivities == {1, 10}

\* deltaX and deltaY of a wheel event
WheelDeltas == {0 - 40, 0, 40, 120}

\* event.button: left, and a button BUTTON_MAPPINGS does not list
Buttons == {0, 7}

\* the controls getSettings() reads and the mute switch sendEvent() reads,
\* which is left off
Pages ==
    [squash : BOOLEAN, relativeSens : Sensitivities, mute : {FALSE},
     cumulativeScrolling : BOOLEAN, scrollRate : {5},
     reverseScrolling : BOOLEAN, reversePanning : BOOLEAN]

DefaultPage ==
    [squash |-> TRUE, relativeSens |-> 10, mute |-> FALSE,
     cumulativeScrolling |-> TRUE, scrollRate |-> 5,
     reverseScrolling |-> FALSE, reversePanning |-> FALSE]

NoEvent ==
    [event_type |-> "", to |-> NoPos, delta |-> Zero, deltas |-> <<>>,
     squash |-> FALSE, button |-> "", state |-> FALSE, hid |-> FALSE]

NoHidOut == [op |-> "", events |-> <<>>, exits |-> 0, requests |-> 0]

\* the controller as a handler finds it, on a page showing the controls pg
HidCur(pg) ==
    [ws |-> hid_ws, absolute |-> absolute, plannedPos |-> plannedPos,
     sentPos |-> sentPos, relativeDeltas |-> relativeDeltas,
     relativeTouchPos |-> relativeTouchPos, scrollTouchPos |-> scrollTouchPos,
     currentStrategy |-> currentStrategy, scrollDelta |-> scrollDelta,
     scrollFix |-> scrollFix, lock |-> pointerLock,
     page |-> pg, out |-> NoHidOut, ret |-> Zero]

HidBegin(op, pg) == [HidCur(pg) EXCEPT !.out.op = op]

Sign(v) == IF v > 0 THEN 1 ELSE IF v < 0 THEN 0 - 1 ELSE 0

Abs(v) == IF v < 0 THEN 0 - v ELSE v

Min(a, b) == IF a < b THEN a ELSE b

Max(a, b) == IF a > b THEN a ELSE b

\* ---- MouseCommunication ------------------------------------------------
\* the event goes to the socket unless there is none or HID is muted, and to
\* recordWsEvent in every case
sendEvent(k, ev) ==
    [k EXCEPT !.out.events = Append(@, [ev EXCEPT !.hid = k.ws /\ ~k.page.mute])]

commSendButton(k, button, down) ==
    sendEvent(k, [NoEvent EXCEPT !.event_type = "mouse_button",
                                 !.button = button, !.state = down])

\* to is the planned position remapped to the absolute coordinate range
sendMove(k, to) == sendEvent(k, [NoEvent EXCEPT !.event_type = "mouse_move", !.to = to])

\* a single delta without the squash flag
commSendRelativeMove(k, delta) ==
    sendEvent(k, [NoEvent EXCEPT !.event_type = "mouse_relative", !.delta = delta])

\* the array of queued deltas with squash: true
commSendRelativeBatch(k, deltas) ==
    sendEvent(k, [NoEvent EXCEPT !.event_type = "mouse_relative",
                                 !.deltas = deltas, !.squash = TRUE])

commSendScroll(k, delta) ==
    sendEvent(k, [NoEvent EXCEPT !.event_type = "mouse_wheel", !.delta = delta])

\* Math.min(Math.max(RELATIVE_MIN_DELTA, Math.floor(v * sensitivity)),
\* RELATIVE_MAX_DELTA), the sensitivity in tenths
scaleDelta_NoLowerClamp(v, sensitivity) ==
    Min((v * sensitivity) \div 10, RELATIVE_MAX_DELTA)

scaleDelta(v, sensitivity) ==
    Min(Max(RELATIVE_MIN_DELTA, (v * sensitivity) \div 10), RELATIVE_MAX_DELTA)

\* ret is the delta to queue, Zero standing for null
processRelativeMove(k, delta, sensitivity, squash) ==
    LET processedDelta == [x |-> scaleDelta(delta.x, sensitivity),
                           y |-> scaleDelta(delta.y, sensitivity)]
    IN  IF processedDelta.x /= 0 \/ processedDelta.y /= 0
        THEN IF squash
             THEN [k EXCEPT !.ret = processedDelta]
             ELSE [commSendRelativeMove(k, processedDelta) EXCEPT !.ret = Zero]
        ELSE [k EXCEPT !.ret = Zero]

commProcessScroll(k, delta, scrollRate, reverseScrolling, reversePanning) ==
    LET x == IF delta.x /= 0
             THEN Sign(delta.x) * (0 - scrollRate) * (IF reversePanning THEN 0 - 1 ELSE 1)
             ELSE 0
        y == IF delta.y /= 0
             THEN Sign(delta.y) * (0 - scrollRate) * (IF reverseScrolling THEN 0 - 1 ELSE 1)
             ELSE 0
    IN  IF x /= 0 \/ y /= 0 THEN commSendScroll(k, [x |-> x, y |-> y]) ELSE k

\* ---- MouseState ----------------------------------------------------------
isRelativeCaptured(k) == k.lock = "locked"

clearRelativeState(k) == [k EXCEPT !.relativeDeltas = <<>>, !.relativeTouchPos = NoPos]

\* the online flags feed the LED only
stateSetState(k, abs) ==
    LET a == IF ~k.absolute /\ abs THEN clearRelativeState(k) ELSE k
        b == IF a.absolute /\ ~abs
             THEN [a EXCEPT !.relativeDeltas = <<>>, !.relativeTouchPos = NoPos]
             ELSE a
    IN  [b EXCEPT !.absolute = abs]

\* ---- the page ------------------------------------------------------------
exitPointerLock(k) ==
    [k EXCEPT !.lock = IF @ = "locked" THEN "free" ELSE @, !.out.exits = @ + 1]

requestPointerLock(k) ==
    [k EXCEPT !.lock = IF @ = "free" THEN "requested" ELSE @, !.out.requests = @ + 1]

\* ---- MouseController -----------------------------------------------------
planMove(k, pos) == [k EXCEPT !.plannedPos = pos]

clearPlannedMove(k) == [k EXCEPT !.plannedPos = NoPos]

\* sendPlannedMove that does not compare with the position sent last
sendPlannedMove_NoDedup(k) ==
    IF k.absolute
    THEN IF k.plannedPos /= NoPos
         THEN [sendMove(k, k.plannedPos) EXCEPT !.sentPos = k.plannedPos]
         ELSE k
    ELSE IF Len(k.relativeDeltas) > 0
    THEN [commSendRelativeBatch(k, k.relativeDeltas) EXCEPT !.relativeDeltas = <<>>]
    ELSE k

\* sendPlannedMove that keeps the batch it has sent
sendPlannedMove_KeepsQueue(k) ==
    IF k.absolute
    THEN IF k.plannedPos /= NoPos /\ k.plannedPos /= k.sentPos
         THEN [sendMove(k, k.plannedPos) EXCEPT !.sentPos = k.plannedPos]
         ELSE k
    ELSE IF Len(k.relativeDeltas) > 0
    THEN commSendRelativeBatch(k, k.relativeDeltas)
    ELSE k

sendPlannedMove(k) ==
    IF k.absolute
    THEN IF k.plannedPos /= NoPos /\ k.plannedPos /= k.sentPos
         THEN [sendMove(k, k.plannedPos) EXCEPT !.sentPos = k.plannedPos]
         ELSE k
    ELSE IF Len(k.relativeDeltas) > 0
    THEN [commSendRelativeBatch(k, k.relativeDeltas) EXCEPT !.relativeDeltas = <<>>]
    ELSE k

sendRelativeMove(k, delta) ==
    LET p == processRelativeMove(k, delta, k.page.relativeSens, k.page.squash)
    IN  IF p.ret /= Zero /\ k.page.squash
        THEN [p EXCEPT !.relativeDeltas = Append(@, p.ret)]
        ELSE p

sendScroll(k, delta) ==
    commProcessScroll(k, delta, k.page.scrollRate, k.page.reverseScrolling,
                      k.page.reversePanning)

\* sendButton that emits the button event first
sendButton_ButtonFirst(k, button, down) ==
    sendPlannedMove(commSendButton(k, button, down))

sendButton(k, button, down) == commSendButton(sendPlannedMove(k), button, down)

setSocket(k, w) ==
    LET s == [k EXCEPT !.ws = w]
    IN  IF ~s.absolute /\ isRelativeCaptured(s) THEN exitPointerLock(s) ELSE s

\* the test for leaving relative mode reads state.absolute after
\* state.setState() has stored the new mode in it
setState(k, abs) ==
    LET s == stateSetState(k, abs)
        e == IF ~s.absolute /\ abs /\ isRelativeCaptured(s) THEN exitPointerLock(s) ELSE s
    IN  [e EXCEPT !.currentStrategy = IF e.absolute THEN "absolute" ELSE "relative"]

\* ---- the strategies ------------------------------------------------------
\* the Keypad is built with sendButton as its callback
emitByCode(k, button, down) == sendButton(k, button, down)

BUTTON_MAPPINGS(b) == IF b = 0 THEN "left" ELSE IF b = 2 THEN "right" ELSE ""

handleClick(k, b, down) ==
    IF k.absolute \/ isRelativeCaptured(k)
    THEN IF BUTTON_MAPPINGS(b) /= "" THEN emitByCode(k, BUTTON_MAPPINGS(b), down) ELSE k
    ELSE IF ~down THEN requestPointerLock(k) ELSE k

\* ev.pos is the pointer position in the stream box, ev.movement the
\* movementX and movementY of the event
handleMove(k, ev) ==
    IF k.currentStrategy = "absolute"
    THEN planMove(k, ev.pos)
    ELSE IF isRelativeCaptured(k) THEN sendRelativeMove(k, ev.movement) ELSE k

handleMultiTouchScroll(k, pos) ==
    IF k.scrollTouchPos = NoPos
    THEN [k EXCEPT !.scrollTouchPos = pos]
    ELSE LET dx == k.scrollTouchPos.x - pos.x
             dy == k.scrollTouchPos.y - pos.y
             delta == [x |-> IF Abs(dx) < TOUCH_THRESHOLD THEN 0 ELSE dx,
                       y |-> IF Abs(dy) < TOUCH_THRESHOLD THEN 0 ELSE dy]
         IN  IF delta /= Zero
             THEN [sendScroll(k, delta) EXCEPT !.scrollTouchPos = NoPos]
             ELSE k

\* n is event.touches.length, pos the position of the first touch
handleTouchStart(k, n, pos) ==
    IF k.currentStrategy = "absolute"
    THEN IF n = 1 THEN sendPlannedMove(planMove(k, pos))
         ELSE IF n >= 2 THEN clearPlannedMove(k)
         ELSE k
    ELSE IF n = 1 THEN [k EXCEPT !.relativeTouchPos = pos]
         ELSE IF n >= 2 THEN [k EXCEPT !.relativeTouchPos = NoPos]
         ELSE k

handleTouchMove(k, n, pos) ==
    IF n >= 2 THEN handleMultiTouchScroll(k, pos)
    ELSE IF n /= 1 THEN k
    ELSE IF k.currentStrategy = "absolute"
    THEN planMove(k, pos)
    ELSE IF k.relativeTouchPos = NoPos
    THEN [k EXCEPT !.relativeTouchPos = pos]
    ELSE [sendRelativeMove(k, [x |-> pos.x - k.relativeTouchPos.x,
                               y |-> pos.y - k.relativeTouchPos.y])
            EXCEPT !.relativeTouchPos = pos]

handleTouchEnd(k, n) ==
    LET s == [sendPlannedMove(k) EXCEPT !.scrollTouchPos = NoPos]
    IN  IF n >= 2
        THEN IF k.currentStrategy = "absolute"
             THEN clearPlannedMove(s)
             ELSE [s EXCEPT !.relativeTouchPos = NoPos]
        ELSE s

\* ---- MouseScrollHandler --------------------------------------------------
\* one axis of calculateCumulativeDelta: the accumulator and the incoming
\* delta give the new accumulator and the value released
cumulativeAxis_NoReset(acc, d, fix) ==
    IF acc /= 0 /\ Sign(acc) /= Sign(d)
    THEN [acc |-> 0, released |-> acc]
    ELSE LET sum == acc + d * fix
         IN  IF Abs(sum) >= SCROLL_THRESHOLD
             THEN [acc |-> sum, released |-> sum]
             ELSE [acc |-> sum, released |-> 0]

cumulativeAxis(acc, d, fix) ==
    IF acc /= 0 /\ Sign(acc) /= Sign(d)
    THEN [acc |-> 0, released |-> acc]
    ELSE LET sum == acc + d * fix
         IN  IF Abs(sum) >= SCROLL_THRESHOLD
             THEN [acc |-> 0, released |-> sum]
             ELSE [acc |-> sum, released |-> 0]

\* ret is the processed delta
calculateCumulativeDelta(k, ev) ==
    LET ax == cumulativeAxis(k.scrollDelta.x, ev.x, k.scrollFix)
        ay == cumulativeAxis(k.scrollDelta.y, ev.y, k.scrollFix)
    IN  [k EXCEPT !.scrollDelta = [x |-> ax.acc, y |-> ay.acc],
                  !.ret = [x |-> ax.released, y |-> ay.released]]

calculateDelta(k, ev, cumulativeScrolling) ==
    IF cumulativeScrolling THEN calculateCumulativeDelta(k, ev) ELSE [k EXCEPT !.ret = ev]

\* in absolute mode the event is handled whether or not the box is hovered
handleWheel(k, ev) ==
    IF ~k.absolute /\ ~isRelativeCaptured(k)
    THEN k
    ELSE LET c == calculateDelta(k, ev, k.page.cumulativeScrolling)
         IN  commProcessScroll([c EXCEPT !.ret = Zero], c.ret, k.page.scrollRate,
                               k.page.reverseScrolling, k.page.reversePanning)

\* ---- the controller on its page ------------------------------------------
MouseInit ==
    /\ hid_ws = FALSE /\ absolute = TRUE /\ plannedPos = NoPos /\ sentPos = Zero
    /\ relativeDeltas = <<>> /\ relativeTouchPos = NoPos /\ scrollTouchPos = NoPos
    /\ currentStrategy = "absolute" /\ scrollDelta = Zero /\ scrollFix = 1
    /\ pointerLock = "free" /\ hid_out = NoHidOut

HidCommit(r) ==
    /\ Len(r.relativeDeltas) <= MaxQueue
    /\ hid_ws' = r.ws /\ absolute' = r.absolute /\ plannedPos' = r.plannedPos
    /\ sentPos' = r.sentPos /\ relativeDeltas' = r.relativeDeltas
    /\ relativeTouchPos' = r.relativeTouchPos /\ scrollTouchPos' = r.scrollTouchPos
    /\ currentStrategy' = r.currentStrategy /\ scrollDelta' = r.scrollDelta
    /\ scrollFix' = r.scrollFix /\ pointerLock' = r.lock /\ hid_out' = r.out
    /\ UNCHANGED <<streamer, mvars, jvars, platform, svars>>

\* the controls a handler of relative movement reads
PointerPages == {pg \in Pages : /\ pg.cumulativeScrolling = DefaultPage.cumulativeScrolling
                                /\ pg.scrollRate = DefaultPage.scrollRate
                                /\ pg.reverseScrolling = DefaultPage.reverseScrolling
                                /\ pg.reversePanning = DefaultPage.reversePanning}

\* the controls a scroll handler reads
ScrollPages == {pg \in Pages : /\ pg.squash = DefaultPage.squash
                               /\ pg.relativeSens = DefaultPage.relativeSens}

\* mousemove on the stream box
MouseMove ==
    /\ streamer \in {"mouse"}
    /\ \E pg \in PointerPages, pos \in Positions, mv \in Movements :
         HidCommit(handleMove(HidBegin("mousemove", pg), [pos |-> pos, movement |-> mv]))

\* mousedown and mouseup on the stream box
MouseButton ==
    /\ streamer \in {"mouse", "scroll"}
    /\ \E b \in Buttons, down \in BOOLEAN :
         HidCommit(handleClick(HidBegin("button", DefaultPage), b, down))

\* setInterval(onSendPlannedMove, rate) of MouseSettings
PlannedMoveTimer ==
    /\ streamer \in {"mouse"}
    /\ HidCommit(sendPlannedMove(HidBegin("timer", DefaultPage)))

MouseSetState ==
    /\ streamer \in {"mouse", "scroll"}
    /\ \E abs \in BOOLEAN : HidCommit(setState(HidBegin("setState", DefaultPage), abs))

MouseSetSocket ==
    /\ streamer \in {"mouse"}
    /\ \E w \in BOOLEAN : HidCommit(setSocket(HidBegin("setSocket", DefaultPage), w))

\* the browser grants the pointer lock the stream box asked for
PointerLockGranted ==
    /\ streamer \in {"mouse", "scroll"}
    /\ pointerLock = "requested"
    /\ HidCommit([HidBegin("pointerlockchange", DefaultPage) EXCEPT !.lock = "locked"])

\* the browser refuses the lock, or the user leaves it
PointerLockLost ==
    /\ streamer \in {"mouse", "scroll"}
    /\ pointerLock \in {"requested", "locked"}
    /\ HidCommit([HidBegin("pointerlockchange", DefaultPage) EXCEPT !.lock = "free"])

TouchStart ==
    /\ streamer \in {"mouse"}
    /\ \E n \in {1, 2}, pos \in Positions :
         HidCommit(handleTouchStart(HidBegin("touchstart", DefaultPage), n, pos))

\* touchmove with one finger down
TouchMove ==
    /\ streamer \in {"mouse"}
    /\ \E pg \in PointerPages, pos \in Positions :
         HidCommit(handleTouchMove(HidBegin("touchmove", pg), 1, pos))

\* touchmove with two fingers down
TouchScroll ==
    /\ streamer \in {"scroll"}
    /\ \E pg \in ScrollPages, pos \in ScrollPositions :
         HidCommit(handleTouchMove(HidBegin("touchmove", pg), 2, pos))

\* n fingers stay down
TouchEnd ==
    /\ streamer \in {"mouse", "scroll"}
    /\ \E n \in {0, 1, 2} :
         HidCommit(handleTouchEnd(HidBegin("touchend", DefaultPage), n))

Wheel ==
    /\ streamer \in {"scroll"}
    /\ \E pg \in ScrollPages, dx \in WheelDeltas, dy \in WheelDeltas :
         HidCommit(handleWheel(HidBegin("wheel", pg), [x |-> dx, y |-> dy]))

\* pointer and one-finger input
MouseNext ==
    \/ MouseMove \/ MouseButton \/ PlannedMoveTimer \/ MouseSetState \/ MouseSetSocket
    \/ PointerLockGranted \/ PointerLockLost \/ TouchStart \/ TouchMove \/ TouchEnd

\* wheel and two-finger input
ScrollNext ==
    \/ Wheel \/ TouchScroll \/ TouchEnd \/ MouseButton \/ MouseSetState
    \/ PointerLockGranted \/ PointerLockLost

(***************************************************************************)
(* The specifications                                                      *)
(***************************************************************************)
Init ==
    /\ streamer \in {"media", "mjpeg"}
    /\ MediaInit /\ MjpegInit /\ PlatformInit /\ SurfaceIdle /\ MouseInit
    \* a streamer reads only its own platform flags
    /\ streamer = "media" => ~browser.is_safari /\ ~browser.is_ios
    /\ streamer = "mjpeg" => has_videodecoder /\ is_https

Next == MediaNext \/ MjpegNext

Spec == Init /\ [][Next]_vars

\* one page runs one streamer of each kind; the two share no variable
InitMedia == Init /\ streamer = "media"

SpecMedia == InitMedia /\ [][MediaNext]_vars

InitMjpeg == Init /\ streamer = "mjpeg"

SpecMjpeg == InitMjpeg /\ [][MjpegNext]_vars

\* every combination of the four engine flags the MJPEG streamer reads
Engines ==
    [is_firefox : {FALSE}, is_safari : BOOLEAN, is_ios : BOOLEAN,
     is_chrome : BOOLEAN, is_blink : BOOLEAN]

\* the MJPEG streamer on a page whose tools.browser reports any combination
InitEngines ==
    /\ streamer = "mjpeg"
    /\ MediaInit /\ MjpegInit /\ SurfaceIdle /\ MouseInit
    /\ browser \in Engines
    /\ has_videodecoder = TRUE /\ is_https = TRUE

SpecEngines == InitEngines /\ [][MjpegNext]_vars

\* the canvas of a media streamer constructed with any of the four
\* orientations, on a page that gave the canvas any size
InitSurface ==
    /\ streamer = "surface"
    /\ MediaInit /\ MjpegInit /\ PlatformInit /\ MouseInit
    /\ ~browser.is_safari /\ ~browser.is_ios
    /\ orient \in Orientations /\ canvas \in Sizes
    /\ natural = NoSize /\ painted = NoSize

SpecSurface == InitSurface /\ [][SurfaceNext]_vars

\* the mouse controller under pointer and one-finger input
InitMouse ==
    /\ streamer = "mouse"
    /\ MediaInit /\ MjpegInit /\ SurfaceIdle /\ MouseInit
    /\ browser = NoEngine /\ has_videodecoder = TRUE /\ is_https = TRUE

SpecMouse == InitMouse /\ [][MouseNext]_vars

\* the mouse controller under wheel and two-finger input, on a Mac
\* (scrollFix 5) or elsewhere (scrollFix 1)
InitScroll ==
    /\ streamer = "scroll"
    /\ MediaInit /\ MjpegInit /\ SurfaceIdle
    /\ browser = NoEngine /\ has_videodecoder = TRUE /\ is_https = TRUE
    /\ hid_ws = FALSE /\ absolute = TRUE /\ plannedPos = NoPos /\ sentPos = Zero
    /\ relativeDeltas = <<>> /\ relativeTouchPos = NoPos /\ scrollTouchPos = NoPos
    /\ currentStrategy = "absolute" /\ scrollDelta = Zero /\ scrollFix \in {1, 5}
    /\ pointerLock = "free" /\ hid_out = NoHidOut

SpecScroll == InitScroll /\ [][ScrollNext]_vars

(***************************************************************************)
(* Properties of the media streamer                                        *)
(***************************************************************************)

\* what a reconnection timeout would do if it fired in the current state
reconnectNow == ensureMedia([Begin("reconnect") EXCEPT !.rtimers = @ - 1], TRUE)

\* C1: at most one connection is opened and not yet closed; a call of
\* ensureStream while a connection exists or an attempt is in progress opens
\* none; a reconnection timeout that fires while a connection exists opens
\* none, so several pending timeouts open at most one connection between them.
C1_SingleConnection ==
    /\ nlive <= 1
    /\ out.opened <= 1
    /\ out.opened = 1 => ws = "connecting" /\ nlive = 1
    /\ (ws /= "null" \/ ensuring) =>
           \A st \in States : ensureStream(Begin("ensureStream"), st).out.opened = 0
    /\ (rtimers > 0 /\ ws /= "null") => reconnectNow.out.opened = 0

\* a reconnection timeout has just fired next to a connection, with another
\* timeout still pending: it opened nothing
C1_Witness ==
    /\ out.op = "reconnect" /\ out.opened = 0
    /\ ws \in {"connecting", "open"} /\ rtimers >= 1 /\ ~stop

\* what the next heartbeat tick, and a liveness reply, would do in the current state
pingNow == ping([Begin("ping") EXCEPT !.beats = @ + 1])

pongNow == onmessage(Begin("message"), [kind |-> "bin", header |-> 255, key |-> FALSE])

\* C2: a liveness reply (first byte 0xFF) resets the missed-heartbeat counter
\* to 0 whenever it arrives; the counter equals the number of heartbeat ticks
\* since the connection opened or last replied; a tick force-closes the
\* connection exactly when it is the fifth such tick in a row.
C2_Heartbeat ==
    /\ pingTimers > 0 => ws = "open" /\ ping_timer /\ pingTimers = 1
    /\ ws = "open" =>
          /\ missed_heartbeats = beats
          /\ beats < HeartbeatLimit
          /\ LET r == pongNow
             IN  r.missed_heartbeats = 0 /\ r.ws = "open"
          /\ LET r == pingNow
             IN  /\ (r.nlive = nlive - 1) <=> (beats + 1 = HeartbeatLimit)
                 /\ (r.ws = "open") <=> (beats + 1 < HeartbeatLimit)

\* the fifth tick in a row has just closed the connection
C2_Witness ==
    /\ out.op = "ping" /\ info = "Too many missed heartbeats"
    /\ ws = "null" /\ nlive = 0 /\ ~ping_timer

\* C3 (as stated): each loss of a connection while the streamer is not stopped
\* schedules exactly one reconnection attempt; a reconnection is scheduled
\* only by a step that loses a connection, so no lost connection has two
\* timers pending; nothing is scheduled when the streamer is stopped.
C3_OneReconnectPerLoss ==
    [][/\ (nlive' < nlive /\ ~stop') => rtimers' = rtimers + 1
       /\ rtimers' > rtimers => nlive' < nlive /\ rtimers' = rtimers + 1
       /\ stop' => rtimers' <= rtimers]_vars

\* C4 (as stated): whenever the streamer holds no connection it is in its
\* initial resource-free state: no heartbeat timer, no decoder, no pending
\* frame, an empty codec identifier, both counters 0.
C4_ResourceFreeWithoutConnection ==
    ws = "null" =>
        /\ ~ping_timer /\ pingTimers = 0
        /\ decoder = "null" /\ ndec = 0
        /\ frame = 0
        /\ codec = 0
        /\ missed_heartbeats = 0 /\ fps_accum = 0

(***************************************************************************)
(* Properties of both streamers                                            *)
(***************************************************************************)

\* the state a handler leaves behind, as the next handler finds it
Next_(r, op) == [r EXCEPT !.out = [NoOut EXCEPT !.op = op], !.exc = FALSE, !.ret = FALSE]

MjNext_(r, op) == [r EXCEPT !.out = [NoMjOut EXCEPT !.op = op]]

stopOnce == stopStream(Begin("stopStream"))

stopTwice == stopStream(Next_(stopOnce, "stopStream"))

mjStopOnce == mjStopStream(MjBegin("stopStream"))

mjStopTwice == mjStopStream(MjNext_(mjStopOnce, "stopStream"))

\* the observable state the claim lists
MediaObservable(r) ==
    [connection |-> r.ws, open_sockets |-> r.nlive,
     heartbeat_timer |-> r.ping_timer, reconnect_timers |-> r.rtimers,
     decoder |-> r.decoder, frame |-> r.frame,
     missed_heartbeats |-> r.missed_heartbeats, fps_accum |-> r.fps_accum]

MjpegObservable(m) ==
    [timer |-> m.timer, poll_timers |-> m.pollTimers, timer_retries |-> m.timer_retries,
     id |-> m.id, fps |-> m.fps, src |-> m.src]

\* C5 (as stated): for both streamers, from every reachable state stopStream()
\* called twice in a row leaves the same observable state (connection,
\* timers, decoder, pending frame, counters, client id, fps, displayed
\* resource) as stopStream() called once.
C5_StopStreamIdempotent ==
    /\ streamer = "media" => MediaObservable(stopTwice) = MediaObservable(stopOnce)
    /\ streamer = "mjpeg" => MjpegObservable(mjStopTwice) = MjpegObservable(mjStopOnce)

\* what a pending redraw would do in the current state
drawNow == drawPendingFrame([Begin("draw") EXCEPT !.raf = FALSE], TRUE)

\* C6: between stopStream() and the next ensureStream() no scheduled
\* continuation takes effect: no step opens a connection, sends a probe or
\* draws a frame, a reconnection timeout or redraw still pending would do
\* nothing, and neither a heartbeat timer nor a poll timer is left to tick.
C6_Cancellation ==
    /\ (streamer = "media" /\ stop) =>
          /\ out.opened = 0 /\ out.probes = 0 /\ out.drew = 0
          /\ nlive = 0 /\ pingTimers = 0 /\ ~ping_timer
          /\ ndec = 0 /\ frame = 0
          /\ rtimers > 0 => LET r == reconnectNow
                            IN  r.out.opened = 0 /\ r.ws = ws
          /\ raf => LET r == drawNow
                    IN  r.out.drew = 0 /\ r.fps_accum = fps_accum
    /\ (streamer = "mjpeg" /\ mj_state = NoSnapshot) => pollTimers = 0 /\ ~timer

\* a reconnection timeout scheduled before stopStream() has fired after it
C6_Witness ==
    /\ streamer = "media" /\ stop
    /\ out.op = "reconnect" /\ out.opened = 0 /\ ws = "null"

(***************************************************************************)
(* Decoded frames                                                          *)
(***************************************************************************)

\* the frame the decoder would hand over next, and what __renderFrame would do
\* with it
incoming == IF frame = 1 THEN 2 ELSE 1

outputNow == renderFrame([Begin("output") EXCEPT !.inflight = @ - 1, !.held = @ + 1], incoming)

\* C7 (amended): the streamer holds at most one undrawn decoded frame; a frame
\* the decoder outputs while one is buffered leaves the buffered frame in
\* place and is itself handed to __closeFrame at once, which releases it
\* except on Firefox, where __closeFrame leaves the release to the browser;
\* the frame drawn is the buffered one.
C7_Backpressure ==
    /\ held = IF frame = 0 THEN 0 ELSE 1
    /\ frame /= 0 =>
          LET o == outputNow
              d == drawNow
          IN  /\ o.frame = frame /\ o.held = 1
              /\ o.out.closeFrame = <<incoming>>
              /\ o.out.released = IF browser.is_firefox THEN <<>> ELSE <<incoming>>
              /\ d.out.drew = frame
              /\ d.out.closeFrame = <<frame>>
    /\ (out.op = "output" /\ out.closeFrame /= <<>>) =>
          /\ frame /= 0 /\ out.closeFrame = <<incoming>>
          /\ out.released = IF browser.is_firefox THEN <<>> ELSE <<incoming>>

\* C7 (as stated): the second frame is discarded and released immediately.
C7_SecondFrameReleased ==
    (out.op = "output" /\ out.closeFrame /= <<>>) =>
        /\ frame /= 0
        /\ out.released = <<incoming>>

\* the decoder has just output a second frame while the first was still
\* waiting to be drawn
C7_Witness ==
    /\ out.op = "output" /\ out.closeFrame = <<incoming>>
    /\ frame /= 0 /\ raf /\ held = 1

(***************************************************************************)
(* Decoder sessions                                                        *)
(***************************************************************************)

\* what a video frame message would do in the current state
frameNow(key) == onmessage(Begin("message"), [kind |-> "bin", header |-> 1, key |-> key])

\* C8 (amended): at most one decoder is created and not closed; a new decoder
\* is created only when the previous one is closed and torn down and no
\* undrawn frame is held: the pending frame of the previous session has been
\* passed to __closeFrame, which released it except on Firefox.
C8_SingleDecoder ==
    /\ ndec = IF decoder \in {"unconfigured", "configured"} THEN 1 ELSE 0
    /\ out.created <= 1
    /\ out.created = 1 =>
          /\ ndec = 1 /\ frame = 0 /\ held = 0
          /\ out.unreleased => browser.is_firefox
    /\ ws = "open" =>
          \A key \in BOOLEAN :
              LET r == frameNow(key)
              IN  r.out.created > 0 =>
                      /\ r.out.created = 1
                      /\ decoder = "null" /\ ndec = 0 /\ frame = 0 /\ held = 0

\* C8 (as stated): whenever a new decoder is created the previous decoder has
\* been closed and the pending frame of the previous session has been released.
C8_PreviousSessionReleased ==
    out.created = 1 => ndec = 1 /\ frame = 0 /\ held = 0 /\ ~out.unreleased

\* a decoder has just been created after the previous session was torn down
\* with a frame still waiting to be drawn
C8_Witness ==
    /\ out.op = "message" /\ out.created = 1 /\ out.unreleased
    /\ decoder = "configured" /\ ndec = 1 /\ frame = 0

\* C9: a video frame is submitted for decoding only to a configured decoder,
\* and never one the decoder must reject; the decoder is configured only by a
\* message carrying a key frame, which is then the first frame submitted to
\* the session; a delta frame that finds the decoder not configured leaves it
\* so and is not submitted.
C9_KeyframeGating ==
    /\ out.submit \in {"none", "key", "delta"}
    /\ out.submit /= "none" => out.op = "message"
    /\ out.configured <= 1
    /\ out.configured = 1 => out.op = "message" /\ out.submit = "key"
    /\ ~keyReq
    /\ inflight > 0 => decoder = "configured"
    /\ (ws = "open" /\ decoder /= "configured") =>
          LET d == frameNow(FALSE)
              k == frameNow(TRUE)
          IN  /\ d.decoder /= "configured"
              /\ d.out.configured = 0
              /\ d.out.submit = "none"
              /\ k.out.submit \in {"none", "key"}
              /\ k.out.submit = "key" <=> k.out.configured = 1
    /\ (ws = "open" /\ decoder = "configured") =>
          \A key \in BOOLEAN :
              LET r == frameNow(key)
              IN  /\ r.out.configured = 0
                  /\ r.out.submit = IF key THEN "key" ELSE "delta"

\* a delta frame has just arrived first in a session: a decoder was created
\* for it, left unconfigured, and the frame was dropped
C9_Witness ==
    /\ out.op = "message" /\ out.created = 1 /\ out.configured = 0
    /\ out.submit = "none" /\ decoder = "unconfigured" /\ ws = "open"

\* C10 (as stated): after a forced teardown of the codec session (the decoder
\* closed itself on an error) the next key frame re-creates and configures the
\* decoder with the codec negotiated before, with no new announcement, and
\* the frame is decoded on the same connection.
C10_CodecRestart ==
    (ws = "open" /\ decoder = "closed" /\ codec /= 0) =>
        LET r == frameNow(TRUE)
        IN  /\ r.out.created = 1
            /\ r.decoder = "configured"
            /\ r.codec = codec
            /\ r.out.submit = "key"
            /\ r.ws = "open"

(***************************************************************************)
(* Failures and their reports                                              *)
(***************************************************************************)

\* what an error event, a close event of the peer and an unparsable message
\* would do in the current state
errorNow == wsErrorHandler([Begin("error") EXCEPT !.ws = "closed", !.nlive = @ - 1], "error")

closeNow == wsCloseHandler([Begin("close") EXCEPT !.ws = "closed", !.nlive = @ - 1])

badMessageNow == onmessage(Begin("message"), [kind |-> "bad"])

Called(r, f) == \E i \in 1..Len(r.out.calls) : r.out.calls[i] = f

\* the handler reported the failure: onInactive, and onInfo(false, false,
\* message) with a message that says something, and returned normally
ReportsFailure(r) ==
    /\ ~r.exc
    /\ Called(r, "setInactive")
    /\ \E i \in 1..Len(r.out.info) :
           /\ ~r.out.info[i].streaming /\ ~r.out.info[i].online
           /\ r.out.info[i].msg /= ""

\* C11 (as stated): every transport failure (error event, close event of the
\* peer, fifth missed heartbeat, exception while handling a message) invokes
\* onInactive and reports onInfo(false, false, message), and no exception
\* leaves the handler.
C11_FailureReported ==
    /\ ws \in {"connecting", "open"} => ReportsFailure(errorNow)
    /\ ws = "open" => ReportsFailure(closeNow)
    /\ ws = "open" => ReportsFailure(badMessageNow)
    /\ (ws = "open" /\ pingTimers > 0 /\ beats + 1 = HeartbeatLimit) => ReportsFailure(pingNow)

(***************************************************************************)
(* Codec negotiation                                                       *)
(***************************************************************************)

\* what a format announcement would do in the current state
announceNow(video) == onmessage(Begin("message"), [kind |-> "json", type |-> "media", video |-> video])

\* the announcements that cannot be served: no H.264 offered, or no decoder
\* on this platform
FailingFormats == IF has_videodecoder THEN {0} ELSE {0} \cup ProfileLevels

Diagnostic(video) ==
    IF video = 0 THEN "No H.264 stream available on PiKVM"
    ELSE IF ~is_https THEN "Direct H.264 requires HTTPS"
    ELSE "This browser can't handle direct H.264 stream"

\* C12 (as stated): an announcement without H.264, or one on a platform with
\* no video decoder, is answered by onInfo(false, false, diagnostic), with a
\* diagnostic of its own when the page is not on HTTPS; no start request is
\* sent, and a frame arriving after it creates no decoder and is not decoded.
C12_NegotiationFailure ==
    ws = "open" =>
        \A video \in FailingFormats :
            LET r == announceNow(video)
            IN  /\ r.out.info = <<[streaming |-> FALSE, online |-> FALSE,
                                   msg |-> Diagnostic(video), n |-> 0]>>
                /\ r.out.starts = 0 /\ r.out.created = 0
                /\ \A key \in BOOLEAN :
                       LET f == onmessage(Next_(r, "message"),
                                          [kind |-> "bin", header |-> 1, key |-> key])
                       IN  f.out.created = 0 /\ f.out.submit = "none"

\* C13 (as stated): a decoder error is only logged: the step closes no
\* connection, stops no heartbeat and schedules no reconnection; and on the
\* same connection the next key frame is decoded, and the delta frame after
\* it as well.
C13_DecoderErrorOnlyLogged ==
    /\ out.op = "decoder error" =>
          /\ ws = "open" /\ nlive = 1 /\ ping_timer /\ pingTimers = 1
          /\ out.sched = 0 /\ ~out.threw
    /\ (ws = "open" /\ decoder = "closed") =>
          LET k == frameNow(TRUE)
              d == onmessage(Next_(k, "message"), [kind |-> "bin", header |-> 1, key |-> FALSE])
          IN  /\ k.ws = "open" /\ k.ping_timer /\ k.out.sched = 0
              /\ k.out.submit = "key"
              /\ d.ws = "open" /\ d.out.submit = "delta"

(***************************************************************************)
(* Properties of the MJPEG streamer                                        *)
(***************************************************************************)

\* what the next poll tick would do in the current state
checkNow == checkStream(MjBegin("checkStream"))

MjCalled(r, f) == \E i \in 1..Len(r.out.calls) : r.out.calls[i] = f

\* the cookie carries the current session key and a client the stored
\* snapshot has statistics for
Correlated ==
    /\ cookie /= NoCookie /\ cookie.key = mj_key
    /\ mj_state /= NoSnapshot /\ cookie.client \in mj_state.clients

\* the supervisor is Active: activity and fps were reported
BecomesActive(r) ==
    /\ r.fps >= 0 /\ r.active
    /\ fps < 0 => MjCalled(r, "setActive")
    /\ \E i \in 1..Len(r.out.info) : r.out.info[i].streaming

\* C14 (as stated): with session key K, a cookie K/c and a snapshot whose
\* statistics contain c, the next poll tick makes the supervisor Active and
\* stops the polling timer.
C14_PollingCorrelation ==
    (pollTimers > 0 /\ Correlated /\ id \in {0, cookie.client}) =>
        LET r == checkNow
        IN  /\ BecomesActive(r)
            /\ ~r.timer /\ r.pollTimers = 0

\* C15: a resolved client id is waited for during a bounded number of ticks,
\* each of which only uses up the retry budget; the tick that finds the
\* budget used up makes the supervisor Idle, stops the polling timer,
\* generates a new session key and requests the stream once, under the new
\* key; with the timer stopped, only ensureStream() can start polling again.
C15_PollingExhaustion ==
    /\ timer_retries \in -1..10
    /\ pollTimers > 0 => timer /\ pollTimers = 1
    /\ (pollTimers > 0 /\ id /= 0 /\ timer_retries >= 0) =>
          LET r == checkNow
          IN  /\ r.timer_retries = timer_retries - 1
              /\ r.out.requested = <<>> /\ r.src = src /\ r.key = mj_key
    /\ (pollTimers > 0 /\ id /= 0 /\ timer_retries < 0) =>
          LET r == checkNow
          IN  /\ r.id = 0 /\ r.fps = -1 /\ r.state = NoSnapshot
              /\ fps >= 0 => MjCalled(r, "setInactive")
              /\ ~r.timer /\ r.pollTimers = 0
              /\ r.key /= mj_key
              /\ r.out.requested = <<streamPath(r.key)>>
              /\ r.src = streamPath(r.key)
    /\ mj_out.requested /= <<>> =>
          /\ mj_out.op = "checkStream" /\ Len(mj_out.requested) = 1
          /\ mj_out.requested[1] = src /\ src.key = mj_key
          /\ ~timer /\ pollTimers = 0
    /\ pollTimers = 0 => mjStopOnce.pollTimers = 0

\* eleven ticks have waited in vain for the resolved client to show up in the
\* statistics: the next one gives up
C15_Witness ==
    /\ mj_out.op = "checkStream" /\ timer /\ pollTimers = 1
    /\ id /= 0 /\ id \notin mj_state.clients /\ timer_retries = -1

\* C16: at most one polling interval is outstanding, and __timer holds it;
\* ensureStream(snapshot) called while it runs starts no second one and
\* leaves the remaining retry budget as it is.
C16_SinglePollTimer ==
    /\ pollTimers <= 1
    /\ timer <=> pollTimers = 1
    /\ timer =>
          \A st \in Snapshots :
              LET r == mjEnsureStream(MjBegin("ensureStream"), st)
              IN  /\ r.pollTimers <= 1
                  /\ r.timer <=> r.pollTimers = 1
                  /\ r.timer => r.timer_retries = timer_retries

\* ensureStream(snapshot) has just been called while the timer was running
\* with part of its budget used up
C16_Witness ==
    /\ mj_out.op = "ensureStream" /\ timer /\ pollTimers = 1
    /\ timer_retries \in 0..9 /\ mj_state /= NoSnapshot

\* the supervisor is Idle
Idle(r) ==
    /\ ~r.timer /\ r.pollTimers = 0 /\ r.timer_retries = 0
    /\ r.id = 0 /\ r.fps = -1 /\ r.state = NoSnapshot

\* C17: ensureStream(null) and stopStream() leave the supervisor Idle from
\* every reachable state: no polling timer, retry budget 0, empty client id,
\* fps -1, no snapshot; after stopStream() the image shows the placeholder.
C17_IdleAfterStop ==
    /\ Idle(mjEnsureStream(MjBegin("ensureStream"), NoSnapshot))
    /\ LET r == mjStopOnce
       IN  Idle(r) /\ r.src = Blank
    /\ mj_out.op = "stopStream" => Idle(MjCur) /\ src = Blank

\* stopStream() has just been called on a supervisor that had requested the
\* stream and received its cookie
C17_Witness ==
    /\ mj_out.op = "stopStream" /\ src = Blank /\ Idle(MjCur)
    /\ cookie /= NoCookie /\ mj_key /= cookie.key

(***************************************************************************)
(* C18: right after a frame of natural size (w, h) is drawn, the canvas is  *)
(* (w, h) when the orientation is 0 or 180 and (h, w) when it is 90 or     *)
(* 270, for each of the four orientations.                                 *)
(***************************************************************************)
C18_OrientationMapping ==
    painted # NoSize =>
        /\ orient \in {0, 180} =>
               canvas.width = painted.width /\ canvas.height = painted.height
        /\ orient \in {90, 270} =>
               canvas.width = painted.height /\ canvas.height = painted.width

\* a quarter-turned streamer has drawn a frame that is not square
C18_Witness ==
    /\ orient = 270 /\ painted # NoSize /\ painted.width # painted.height
    /\ canvas.width = painted.height

(***************************************************************************)
(* C19: a media streamer that has been started and is not stopped always   *)
(* has a live connection or a reconnect pending; only the streamer nobody  *)
(* has started yet has neither.                                            *)
(***************************************************************************)
C19_ReconnectPending ==
    (~stop /\ nlive = 0 /\ rtimers = 0) =>
        (ws = "null" /\ ~ensuring /\ out.op = "")

\* the fps updates a handler run emitted
FpsUpdates(r) == SelectSeq(r.out.info, LAMBDA e : e.streaming)

\* a tick now, a key frame after it, and the tick after that: no frame is
\* drawn between the two ticks
tickAfterKeyFrame ==
    LET k == onmessage(Next_(pingNow, "message"),
                       [kind |-> "bin", header |-> 1, key |-> TRUE])
    IN  ping([Next_(k, "ping") EXCEPT !.beats = @ + 1])

\* C20 (as stated): a heartbeat tick on an open connection first increments
\* the miss counter; below 5 it sends exactly one probe and, only if the
\* decoder is configured, emits onInfo(true, source-online, n fps) and resets
\* the frame counter to 0, where n is the number of frames drawn since the
\* previous tick; the tick that reaches 5 sends no probe and emits no fps
\* update.
C20_TickSteps ==
    (ws = "open" /\ pingTimers > 0) =>
        LET r == pingNow
        IN  /\ missed_heartbeats + 1 < HeartbeatLimit =>
                  /\ r.missed_heartbeats = missed_heartbeats + 1
                  /\ r.out.probes = 1
                  /\ decoder = "configured" =>
                        /\ r.out.info = << [streaming |-> TRUE, online |-> (state = "online"),
                                            msg |-> "fps dynamic", n |-> fps_accum] >>
                        /\ r.fps_accum = 0
                  /\ decoder /= "configured" =>
                        r.out.info = << >> /\ r.fps_accum = fps_accum
                  \* two ticks with no frame drawn in between: the second one
                  \* reports 0 frames
                  /\ missed_heartbeats + 2 < HeartbeatLimit =>
                        LET u == FpsUpdates(tickAfterKeyFrame)
                        IN  \A i \in 1..Len(u) : u[i].n = 0
            /\ missed_heartbeats + 1 >= HeartbeatLimit =>
                  r.out.probes = 0 /\ FpsUpdates(r) = << >>

\* the last two callbacks of a handler run, in order
LastCalls(r) ==
    IF Len(r.out.calls) < 2 THEN << >>
    ELSE << r.out.calls[Len(r.out.calls) - 1], r.out.calls[Len(r.out.calls)] >>

\* C21 (as stated): stopStream() of the media streamer sets the stop flag,
\* closes the connection it holds without scheduling a reconnection, and
\* returns after onInactive followed by onInfo(false, false, "") as the last
\* status it reports.
C21_StopStream ==
    streamer = "media" =>
        LET r == stopOnce
        IN  /\ r.stop
            /\ r.nlive = 0 /\ r.out.sched = 0 /\ r.rtimers = rtimers
            /\ ~r.exc
            /\ LastCalls(r) = << "setInactive", "setInfo" >>
            /\ r.out.info /= << >>
            /\ r.out.info[Len(r.out.info)] =
                   [streaming |-> FALSE, online |-> FALSE, msg |-> "", n |-> 0]

\* the client id as the next poll tick resolves it
resolvedNow == findId(MjBegin("checkStream")).id

\* C22 (as stated): a poll tick on which the client id is resolved, earlier or
\* by that tick, and has statistics in the stored snapshot makes the
\* supervisor Active on that tick: activity and the snapshot's fps are
\* reported and the polling timer is stopped.
C22_PollTickActivation ==
    (pollTimers > 0 /\ resolvedNow /= 0 /\ resolvedNow \in mj_state.clients) =>
        LET r == checkNow
        IN  /\ r.active /\ r.fps = mj_state.fps
            /\ \E i \in 1..Len(r.out.info) :
                   r.out.info[i].streaming /\ r.out.info[i].n = mj_state.fps
            /\ ~r.timer /\ r.pollTimers = 0

\* the poll tick took the failure path: Idle, timer stopped, a new key, and the
\* stream requested again
TookFailurePath(r) ==
    /\ r.out.requested /= << >>
    /\ r.id = 0 /\ r.fps = -1 /\ ~r.timer /\ r.key /= mj_key

\* the poll tick only waited: nothing requested, the key and the timer kept
OnlyWaited(r) ==
    /\ r.out.requested = << >> /\ r.src = src
    /\ r.key = mj_key /\ r.timer /\ r.pollTimers = pollTimers

RetryBudget == 10

\* the ticks that have waited since the timer was started: each waiting tick
\* takes one off the counter
WaitedTicks == RetryBudget - timer_retries

\* C24 (as stated): a resolved client id without statistics is waited for on
\* exactly 10 poll ticks after the timer starts; the tick after the 10th
\* waiting tick takes the failure path.
C24_RetryBudget ==
    (pollTimers > 0 /\ resolvedNow /= 0) =>
        LET r == checkNow
        IN  /\ WaitedTicks < RetryBudget => OnlyWaited(r)
            /\ WaitedTicks >= RetryBudget => TookFailurePath(r)

\* the ticks a running timer can still take before it must stop
TicksLeft == timer_retries + 2

\* C25: a running polling timer stops after a number of ticks bounded by the
\* retry budget: every tick either stops the timer, in Active or on the
\* failure path, or leaves one tick less to go, and the tick with none left
\* stops it; ensureStream(snapshot) on a running timer does not add ticks.
C25_PollingBounded ==
    pollTimers > 0 =>
        /\ TicksLeft \in 1..(RetryBudget + 2)
        /\ LET r == checkNow
           IN  \/ /\ r.pollTimers = 0 /\ ~r.timer
                  /\ TookFailurePath(r) \/ BecomesActive(r)
               \/ /\ r.pollTimers = 1 /\ r.timer
                  /\ TicksLeft > 1
                  /\ r.timer_retries + 2 = TicksLeft - 1
        /\ \A st \in Snapshots :
              LET e == mjEnsureStream(MjBegin("ensureStream"), st)
              IN  e.timer => e.timer_retries = timer_retries

\* the last tick the budget allows has just stopped the timer on the failure
\* path, under a cookie of the key it gave up
C25_Witness ==
    /\ mj_out.op = "checkStream" /\ mj_out.requested /= << >>
    /\ ~timer /\ pollTimers = 0 /\ timer_retries = 0
    /\ cookie /= NoCookie /\ cookie.key /= mj_key

\* C26: a client id is adopted only from a cookie that starts with the
\* current session key and a slash, and the key stays as it is in that step;
\* every step that changes the session key takes a key held by no cookie or
\* request and clears the client id in the same step, and stopStream() and
\* ensureStream(null) are such steps; the supervisor turns active only on an
\* id adopted under the key it still has, with statistics in the snapshot.
C26_SessionKeyCorrelation ==
    [][/\ (id' /= id /\ id' /= 0) =>
             /\ id = 0 /\ cookie.key = mj_key /\ id' = cookie.client
             /\ mj_key' = mj_key
       /\ mj_key' /= mj_key =>
             /\ id' = 0
             /\ mj_key' \notin {cookie.key, src.key}
       /\ (mj_out'.op = "stopStream" \/ (mj_out'.op = "ensureStream" /\ mj_state' = NoSnapshot)) =>
             mj_key' /= mj_key /\ id' = 0
       /\ (mj_active' /\ ~mj_active) =>
             /\ id' /= 0 /\ id' \in mj_state'.clients
             /\ cookie.key = mj_key' /\ (id = 0 => id' = cookie.client)
      ]_vars

\* ensureStream(snapshot) has just run with a cookie of an earlier session key
\* whose client has statistics in the snapshot: its id was not adopted and
\* polling goes on
C26_Witness ==
    /\ mj_out.op = "ensureStream"
    /\ cookie /= NoCookie /\ cookie.key /= mj_key
    /\ cookie.client \in mj_state.clients
    /\ id = 0 /\ ~mj_active /\ timer

(***************************************************************************)
(* Frames                                                                  *)
(***************************************************************************)

\* the handler run passed frame f, and nothing else, to __closeFrame, which
\* closed it (closes) or left it open
Gone(r, f, closes) ==
    /\ r.out.closeFrame = << f >>
    /\ r.out.released = IF closes THEN << f >> ELSE << >>

\* what the redraw does when drawImage throws
drawThrows == drawPendingFrame([Begin("draw") EXCEPT !.raf = FALSE], FALSE)

\* a teardown of the codec session in the current state
teardownNow == closeDecoder(Begin("teardown"))

\* what becomes of every frame the decoder outputs, closes saying whether
\* __closeFrame closes the frames it is given
FrameLifecycle(closes) ==
    \* a frame is held exactly while it is the pending one, within a session
    /\ held = IF frame = 0 THEN 0 ELSE 1
    /\ frame /= 0 => decoder /= "null"
    \* no handler parts with more than one frame, and only the output, draw
    \* and teardown paths do
    /\ Len(out.closeFrame) <= 1
    /\ out.closeFrame /= << >> => Gone([out |-> out], out.closeFrame[1], closes)
    /\ out.drew /= 0 => out.closeFrame = << out.drew >> /\ frame /= out.drew
    \* drawn, also when drawing throws: gone, and a second redraw finds nothing
    /\ frame /= 0 =>
          /\ LET d == drawNow
                 again == drawPendingFrame(Next_(d, "draw"), TRUE)
             IN  /\ Gone(d, frame, closes) /\ d.out.drew = frame /\ d.frame = 0 /\ d.held = 0
                 /\ again.out.drew = 0 /\ again.out.closeFrame = << >>
          /\ LET d == drawThrows
             IN  Gone(d, frame, closes) /\ d.out.drew = 0 /\ d.frame = 0 /\ d.held = 0
          \* torn down while pending, also when close() throws
          /\ LET c == teardownNow
             IN  Gone(c, frame, closes) /\ c.frame = 0 /\ c.held = 0
    \* output while another frame is buffered: the new one goes at once
    /\ (frame /= 0 /\ decoder = "configured" /\ inflight > 0) =>
          LET o == outputNow
          IN  Gone(o, incoming, closes) /\ o.frame = frame /\ o.held = 1

\* C27 (amended): every frame the decoder outputs is passed to __closeFrame
\* exactly once - after it is drawn, also when drawing throws, when it is
\* discarded because another frame is buffered, or when the codec session is
\* torn down while it is pending - and is not drawn or passed on again;
\* __closeFrame releases it except on Firefox, where it leaves that to the
\* browser.
C27_FrameDisposedOnce == FrameLifecycle(~browser.is_firefox)

\* C27 (as stated): every frame the decoder outputs is released exactly once,
\* on each of these paths.
C27_FrameReleasedOnce == FrameLifecycle(TRUE)

\* a redraw has just thrown and the frame it was drawing is gone all the same
C27_Witness ==
    /\ out.op = "draw" /\ out.threw /\ out.drew = 0
    /\ Len(out.closeFrame) = 1 /\ frame = 0 /\ held = 0

(***************************************************************************)
(* The stream request                                                      *)
(***************************************************************************)
WebKitDetected == browser.is_safari \/ browser.is_ios

BlinkDetected == browser.is_chrome \/ browser.is_blink

\* C28 (amended): the stream a poll tick requests carries the new session
\* key, dual_final_frames=1 exactly when a WebKit engine (Safari or iOS) is
\* detected, and advance_headers=1 exactly when a Blink engine (Chrome or
\* Blink) is detected and no WebKit engine is; never both.
C28_CompatibilityFlags ==
    mj_out.requested /= << >> =>
        /\ mj_out.requested = << src >> /\ src.kind = "stream" /\ src.key = mj_key
        /\ src.dual_final_frames <=> WebKitDetected
        /\ src.advance_headers <=> (BlinkDetected /\ ~WebKitDetected)

\* C28 (as stated): each of the two parameters is added on its own detection,
\* whatever the other flags say.
C28_IndependentFlags ==
    mj_out.requested /= << >> =>
        /\ src.dual_final_frames <=> WebKitDetected
        /\ src.advance_headers <=> BlinkDetected

\* the stream has just been requested on a page where both a WebKit and a
\* Blink flag are set
C28_Witness ==
    /\ mj_out.op = "checkStream" /\ mj_out.requested /= << >>
    /\ WebKitDetected /\ BlinkDetected
    /\ src.dual_final_frames /\ ~src.advance_headers

(***************************************************************************)
(* Events of a discarded connection                                        *)
(***************************************************************************)

\* what the error event of a socket the streamer has discarded would do now
lateErrorNow == wsErrorHandler([Begin("late error") EXCEPT !.nlate = @ - 1], "error")

\* C29 (as stated): an event of a connection the streamer has already
\* discarded closes no connection, schedules no reconnection and, after
\* stopStream(), leaves the reported status as it is.
C29_DiscardedConnectionEvents ==
    nlate > 0 =>
        LET r == lateErrorNow
        IN  /\ r.nlive = nlive /\ r.ws = ws
            /\ r.out.sched = 0 /\ r.rtimers = rtimers
            /\ stop => r.out.calls = << >> /\ r.info = info /\ r.active = active

\* C30 (as stated): a heartbeat timer runs only while the streamer holds a
\* live connection, at most one runs at any time and __ping_timer holds it,
\* and between handler runs the missed-heartbeat counter is in 0..4.
C30_HeartbeatInvariant ==
    /\ pingTimers > 0 => nlive = 1 /\ ws = "open"
    /\ pingTimers <= 1 /\ (ping_timer <=> pingTimers = 1)
    /\ missed_heartbeats \in 0..(HeartbeatLimit - 1)

(***************************************************************************)
(* Status callbacks                                                        *)
(***************************************************************************)

\* how many times the handler run called callback f
MjCount(r, f) == Cardinality({i \in 1..Len(r.out.calls) : r.out.calls[i] = f})

\* the handler runs that can start in the current state
MjRuns ==
    {mjEnsureStream(MjBegin("ensureStream"), st) : st \in Snapshots \cup {NoSnapshot}}
        \cup {mjStopStream(MjBegin("stopStream"))}
        \cup (IF pollTimers > 0 THEN {checkNow} ELSE {})

\* C31: the polling streamer calls onActive only in a run that takes the fps
\* from unknown (-1) to known and onInactive only in a run that takes it from
\* known to unknown, once each; the callback called last therefore tells
\* whether the streamer is active, the first one called is onActive, and the
\* two alternate. Whenever the streamer is active its client id is not empty.
C31_StatusCallbacksAlternate ==
    /\ mj_active = (fps >= 0)
    /\ fps >= 0 => id /= 0
    /\ \A r \in MjRuns :
          /\ MjCount(r, "setActive") = IF fps < 0 /\ r.fps >= 0 THEN 1 ELSE 0
          /\ MjCount(r, "setInactive") = IF fps >= 0 /\ r.fps < 0 THEN 1 ELSE 0
          /\ r.active = (r.fps >= 0)

\* ensureStream(snapshot) has just turned the streamer active, and the stop
\* that can follow reports it inactive
C31_Witness ==
    /\ mj_out.op = "ensureStream" /\ mj_active /\ fps >= 0 /\ id /= 0
    /\ MjCount(mjStopOnce, "setInactive") = 1

\* the handler runs, other than the arrival of a message, that can start in
\* the current state
OtherRuns ==
    {ensureStream(Begin("ensureStream"), st) : st \in States}
        \cup {stopOnce}
        \cup (IF rtimers > 0 THEN {reconnectNow} ELSE {})
        \cup (IF ws = "connecting"
              THEN {wsOpenHandler([Begin("open") EXCEPT !.ws = "open", !.beats = 0])}
              ELSE {})
        \cup (IF pingTimers > 0 THEN {pingNow} ELSE {})
        \cup (IF ws \in {"connecting", "open"} THEN {errorNow} ELSE {})
        \cup (IF ws = "open" THEN {closeNow} ELSE {})
        \cup (IF nlate > 0 THEN {lateErrorNow} ELSE {})
        \cup (IF decoder = "configured" /\ inflight > 0 THEN {outputNow} ELSE {})
        \cup (IF raf THEN {drawNow, drawThrows} ELSE {})

\* C32: the binary streamer calls onActive only from the handling of a video
\* frame and only with the decoder in the configured state. A decoder is
\* configured only while a connection is open and the streamer is not
\* stopped: every teardown, stopStream() and every newly opened connection
\* leave no configured decoder, and without one onActive is called only by a
\* key frame that configures the decoder on the open connection.
C32_ActiveOnlyWhenConfigured ==
    /\ decoder = "configured" => ws = "open" /\ ~stop
    /\ out.op \in {"open", "stopStream", "error", "close", "late error"} =>
          decoder /= "configured"
    /\ \A r \in OtherRuns : ~Called(r, "setActive")
    /\ ws = "open" =>
          \A msg \in Messages :
              Called(onmessage(Begin("message"), msg), "setActive") =>
                  /\ msg.kind = "bin" /\ msg.header = 1
                  /\ decoder = "configured" \/ msg.key
                  /\ ensureDecoder(Begin("message"), msg.key).decoder = "configured"

\* a connection was discarded earlier, and on the one open now a key frame
\* has just configured the decoder and been accepted: the streamer is active
C32_Witness ==
    /\ nlate > 0 /\ ws = "open"
    /\ out.op = "message" /\ out.configured = 1 /\ out.submit = "key"
    /\ decoder = "configured" /\ active

(***************************************************************************)
(* Properties of the mouse controller                                      *)
(***************************************************************************)

\* what sendButton(button, down) would emit in the current state
buttonNow(button, down) == sendButton(HidBegin("button", DefaultPage), button, down).out.events

\* the planned move sendPlannedMove() would flush in the current state: the
\* position planned last when it differs from the one sent last, the batch of
\* queued deltas in relative mode
PendingMove ==
    IF absolute
    THEN IF plannedPos /= NoPos /\ plannedPos /= sentPos
         THEN << [NoEvent EXCEPT !.event_type = "mouse_move", !.to = plannedPos,
                                 !.hid = hid_ws] >>
         ELSE << >>
    ELSE IF relativeDeltas /= << >>
    THEN << [NoEvent EXCEPT !.event_type = "mouse_relative", !.deltas = relativeDeltas,
                            !.squash = TRUE, !.hid = hid_ws] >>
    ELSE << >>

\* C33: sendButton flushes the pending planned move before the button event:
\* what it emits is the mouse_move for the position planned last, when that
\* differs from the one sent last (absolute mode), or the batch of queued
\* deltas (relative mode), followed by the mouse_button event and nothing
\* else; after a button event no planned move is left pending.
C33_ButtonAfterPlannedMove ==
    /\ \A button \in {"left", "right"}, down \in BOOLEAN :
          buttonNow(button, down) =
              PendingMove \o << [NoEvent EXCEPT !.event_type = "mouse_button",
                                                !.button = button, !.state = down,
                                                !.hid = hid_ws] >>
    /\ (hid_out.op = "button" /\ hid_out.events /= << >>) =>
          /\ hid_out.events[Len(hid_out.events)].event_type = "mouse_button"
          /\ \A i \in 1..(Len(hid_out.events) - 1) :
                hid_out.events[i].event_type /= "mouse_button"
          /\ PendingMove = << >>

\* a click in relative mode has just sent two queued deltas, in one batch,
\* ahead of the button event
C33_Witness ==
    /\ hid_out.op = "button" /\ ~absolute
    /\ Len(hid_out.events) = 2
    /\ hid_out.events[1].event_type = "mouse_relative"
    /\ Len(hid_out.events[1].deltas) = 2
    /\ hid_out.events[2].event_type = "mouse_button"

\* the raw deltas a mousemove or a one-finger touchmove can hand to
\* sendRelativeMove
RelativeInputs ==
    Movements \cup {[x |-> p.x - q.x, y |-> p.y - q.y] : p, q \in Positions}

\* the delta after sensitivity and clamping
Processed(delta, pg) ==
    [x |-> scaleDelta(delta.x, pg.relativeSens), y |-> scaleDelta(delta.y, pg.relativeSens)]

RelativeEvent(delta) ==
    [NoEvent EXCEPT !.event_type = "mouse_relative", !.delta = delta, !.hid = hid_ws]

BatchEvent(deltas) ==
    [NoEvent EXCEPT !.event_type = "mouse_relative", !.deltas = deltas, !.squash = TRUE,
                    !.hid = hid_ws]

\* what the planned-move timer would do in the current state
timerNow == sendPlannedMove(HidBegin("timer", DefaultPage))

\* C34: a processed delta that is not all-zero is, with squash off, sent at
\* once and not queued, and with squash on queued behind the deltas already
\* waiting and not sent; sendPlannedMove in relative mode sends the whole
\* queue in its order as one batch and leaves it empty. The queue changes
\* only by such an append, by such a batch, or by being emptied when the mode
\* changes between absolute and relative, and it is empty in absolute mode.
C34_RelativeDeltasOnce ==
    /\ [](/\ absolute => relativeDeltas = << >>
          /\ \A pg \in PointerPages, delta \in RelativeInputs :
                LET r == sendRelativeMove(HidBegin("mousemove", pg), delta)
                    p == Processed(delta, pg)
                IN  /\ (p /= Zero /\ ~pg.squash) =>
                          /\ r.out.events = << RelativeEvent(p) >>
                          /\ r.relativeDeltas = relativeDeltas
                    /\ (p /= Zero /\ pg.squash) =>
                          /\ r.out.events = << >>
                          /\ r.relativeDeltas = Append(relativeDeltas, p)
                    /\ p = Zero =>
                          r.out.events = << >> /\ r.relativeDeltas = relativeDeltas
          /\ (~absolute /\ relativeDeltas /= << >>) =>
                /\ timerNow.out.events = << BatchEvent(relativeDeltas) >>
                /\ timerNow.relativeDeltas = << >>)
    /\ [][relativeDeltas' /= relativeDeltas =>
             \/ /\ Len(relativeDeltas') = Len(relativeDeltas) + 1
                /\ SubSeq(relativeDeltas', 1, Len(relativeDeltas)) = relativeDeltas
                /\ hid_out'.events = << >>
             \/ /\ relativeDeltas' = << >>
                /\ \E i \in 1..Len(hid_out'.events) :
                      /\ hid_out'.events[i].event_type = "mouse_relative"
                      /\ hid_out'.events[i].deltas = relativeDeltas
             \/ /\ relativeDeltas' = << >>
                /\ absolute' /= absolute
                /\ hid_out'.op = "setState"]_vars

\* the timer has just sent two different queued deltas in one batch
C34_Witness ==
    /\ hid_out.op = "timer" /\ ~absolute /\ relativeDeltas = << >>
    /\ Len(hid_out.events) = 1
    /\ hid_out.events[1].squash
    /\ Len(hid_out.events[1].deltas) = 2
    /\ hid_out.events[1].deltas[1] /= hid_out.events[1].deltas[2]

MoveEvent(pos) == [NoEvent EXCEPT !.event_type = "mouse_move", !.to = pos, !.hid = hid_ws]

\* a second run of sendPlannedMove right after the one timerNow stands for
timerAgain == sendPlannedMove([timerNow EXCEPT !.out = NoHidOut])

\* C35: in absolute mode sendPlannedMove emits a mouse_move exactly when a
\* planned position exists and differs from the position sent last, and then
\* records it as sent; a second run without a new planned position emits
\* nothing. A handler emits at most one mouse_move, each one carries a position
\* that differs from the one recorded as sent and becomes the recorded one,
\* and the record changes in no other way: no two mouse_move events in a row
\* carry the same planned position.
C35_PlannedMoveDeduplicated ==
    /\ [](absolute =>
            /\ IF plannedPos /= NoPos /\ plannedPos /= sentPos
               THEN /\ timerNow.out.events = << MoveEvent(plannedPos) >>
                    /\ timerNow.sentPos = plannedPos
               ELSE /\ timerNow.out.events = << >>
                    /\ timerNow.sentPos = sentPos
            /\ timerAgain.out.events = << >>
            /\ timerAgain.sentPos = timerNow.sentPos)
    /\ [][/\ Cardinality({i \in 1..Len(hid_out'.events) :
                              hid_out'.events[i].event_type = "mouse_move"}) <= 1
          /\ \A i \in 1..Len(hid_out'.events) :
                hid_out'.events[i].event_type = "mouse_move" =>
                    /\ hid_out'.events[i].to /= sentPos
                    /\ hid_out'.events[i].to = sentPos'
          /\ sentPos' /= sentPos =>
                \E i \in 1..Len(hid_out'.events) :
                    /\ hid_out'.events[i].event_type = "mouse_move"
                    /\ hid_out'.events[i].to = sentPos']_vars

\* the timer has just sent a planned position; it is the recorded one now
C35_Witness ==
    /\ hid_out.op = "timer" /\ absolute
    /\ Len(hid_out.events) = 1
    /\ hid_out.events[1].event_type = "mouse_move"
    /\ hid_out.events[1].to = plannedPos /\ sentPos = plannedPos

\* what calculateCumulativeDelta would do with a wheel event in the current state
cumulativeNow(ev) == calculateCumulativeDelta(HidBegin("wheel", DefaultPage), ev)

\* the axis released a value for one of the two reasons, and is empty now
ReleasedFor(acc, d, released, left) ==
    released /= 0 =>
        /\ \/ Abs(acc + d * scrollFix) >= SCROLL_THRESHOLD
           \/ acc /= 0 /\ Sign(d) /= Sign(acc)
        /\ left = 0

\* C36: each axis of the scroll accumulator stays below SCROLL_THRESHOLD in
\* absolute value; an axis releases a non-zero value only when the
\* accumulator with the incoming delta reaches the threshold or when the
\* delta's sign differs from the accumulator's, and is zero after a release.
C36_ScrollAccumulator ==
    /\ Abs(scrollDelta.x) < SCROLL_THRESHOLD
    /\ Abs(scrollDelta.y) < SCROLL_THRESHOLD
    /\ \A dx \in WheelDeltas, dy \in WheelDeltas :
          LET r == cumulativeNow([x |-> dx, y |-> dy])
          IN  /\ Abs(r.scrollDelta.x) < SCROLL_THRESHOLD
              /\ Abs(r.scrollDelta.y) < SCROLL_THRESHOLD
              /\ ReleasedFor(scrollDelta.x, dx, r.ret.x, r.scrollDelta.x)
              /\ ReleasedFor(scrollDelta.y, dy, r.ret.y, r.scrollDelta.y)

\* a wheel event has just released the vertical axis, which scrolled the
\* host, while the horizontal axis goes on accumulating
C36_Witness ==
    /\ hid_out.op = "wheel"
    /\ Len(hid_out.events) = 1
    /\ hid_out.events[1].event_type = "mouse_wheel"
    /\ hid_out.events[1].delta.y /= 0 /\ hid_out.events[1].delta.x = 0
    /\ scrollDelta.y = 0 /\ scrollDelta.x /= 0

InRange(d) ==
    /\ RELATIVE_MIN_DELTA <= d.x /\ d.x <= RELATIVE_MAX_DELTA
    /\ RELATIVE_MIN_DELTA <= d.y /\ d.y <= RELATIVE_MAX_DELTA
    /\ d /= Zero

\* every delta of a mouse_relative event in the sequence is in range
AllInRange(events) ==
    \A i \in 1..Len(events) :
        events[i].event_type = "mouse_relative" =>
            IF events[i].squash
            THEN \A j \in 1..Len(events[i].deltas) : InRange(events[i].deltas[j])
            ELSE InRange(events[i].delta)

\* C37: every relative delta processRelativeMove sends or returns for queueing
\* has x and y within [-127, 127] and is not (0, 0); an input whose processed
\* delta is (0, 0) is neither sent nor queued. So every delta in the queue
\* and in an emitted mouse_relative event is such a delta.
C37_RelativeDeltaClamped ==
    /\ \A i \in 1..Len(relativeDeltas) : InRange(relativeDeltas[i])
    /\ AllInRange(hid_out.events)
    /\ \A pg \in PointerPages, delta \in RelativeInputs :
          LET r == processRelativeMove(HidBegin("mousemove", pg), delta,
                                       pg.relativeSens, pg.squash)
              s == sendRelativeMove(HidBegin("mousemove", pg), delta)
              zero == /\ (delta.x * pg.relativeSens) \div 10 = 0
                      /\ (delta.y * pg.relativeSens) \div 10 = 0
          IN  /\ r.ret /= Zero => InRange(r.ret) /\ pg.squash /\ r.out.events = << >>
              /\ AllInRange(r.out.events)
              /\ (r.ret = Zero /\ r.out.events = << >>) <=> zero
              /\ zero => s.out.events = << >> /\ s.relativeDeltas = relativeDeltas

\* a movement beyond the range on both axes has just been sent, clamped
C37_Witness ==
    /\ hid_out.op = "mousemove" /\ ~absolute
    /\ Len(hid_out.events) = 1
    /\ hid_out.events[1].event_type = "mouse_relative"
    /\ hid_out.events[1].delta = [x |-> RELATIVE_MIN_DELTA, y |-> RELATIVE_MAX_DELTA]

\* what setState(online, absolute, hidOnline, hidBusy) would do in the current state
setStateNow(abs) == setState(HidBegin("setState", DefaultPage), abs)

\* C38 (as stated): when setState switches the mouse from relative to
\* absolute mode while the pointer is captured by pointer lock, the
\* controller exits pointer lock; the strategy in use after the call is the
\* one of the new mode.
C38_ModeSwitchExitsPointerLock ==
    /\ \A abs \in BOOLEAN :
          /\ setStateNow(abs).absolute = abs
          /\ setStateNow(abs).currentStrategy = IF abs THEN "absolute" ELSE "relative"
    /\ (~absolute /\ pointerLock = "locked") =>
          /\ setStateNow(TRUE).out.exits = 1
          /\ setStateNow(TRUE).lock = "free"

====
